---- MODULE Spec2Model ----
(***************************************************************************)
(* Automated EDA pipeline: the sandbox executor (runtime/executor.py) and  *)
(* the per-item orchestration loops (main.py, ui/streamlit_app.py).        *)
(*                                                                         *)
(* A code string is a sequence of statements; the text of a statement is a *)
(* sequence of lexical tokens (maximal \w+ runs, single punctuation marks, *)
(* whitespace), so that the regular expressions and substring tests of the *)
(* security gate are evaluated on the text and the interpreter on the      *)
(* statements' effects.                                                    *)
(***************************************************************************)
EXTENDS Integers, Sequences, FiniteSets, TLC

VARIABLES
    x_pc,          \* executor harness: "ready" before the call, "done" after
    x_code,        \* execute's argument code
    x_df,          \* execute's argument df
    x_schema,      \* execute's argument manifest_schema
    x_out,         \* what the call produced (a result, or a propagated fault)
    front,         \* which front end drives the run: "cli" (main.py) or "ui"
    pc,            \* position of the orchestration
    n_items,       \* number of items of the approved plan
    item,          \* index of the plan item being processed (1-based)
    code_output,   \* the current CodeArtifact of the item
    exec_result,   \* the last ExecutionResult obtained for the item
    critique_result, \* the last critique obtained for the item
    retry_count,   \* the local retry_count (Unbound until first assigned)
    success,       \* the local success flag of the retry loop
    highlights,    \* sequence of highlights, each tagged with its item
    events,        \* calls made for the current item, in order
    run_result,    \* what the run returned: "none", "ok", "failed", "raised"
    exec_results,  \* execution_log["exec_results"] of the cli run
    db_rows,       \* rows of table execution_results saved by the run
    l_pc,          \* evidence/linter harness: "ready", "evidence", "done"
    l_df,          \* _generate_evidence's argument df
    l_manifest,    \* the manifest given to _generate_evidence and _run_linter
    l_evidence,    \* what _generate_evidence returned
    l_flags,       \* what _run_linter returned
    a_pc,          \* agent harness: "ready" before the call, "done" after
    a_method,      \* the agent boundary called: plan, write_code, critique, report
    a_llm,         \* the state of the agent's llm_client
    a_input,       \* the arguments of the call
    a_out,         \* what the call produced: a value, or a raised fault
    a_df,          \* the dataset the critiqued code was executed on
    a_reexec,      \* what executing the code with the fix patch produced
    s_pc,          \* streams harness: "run" while it makes calls
    s_init,        \* sys.stdout and sys.stderr when the process started
    s_sys,         \* the objects sys.stdout and sys.stderr refer to now
    s_calls,       \* how each execute call made so far ended, in order
    s_writes,      \* who wrote to which stream object
    h_pc,          \* history harness: "run" while it makes calls
    h_sessions,    \* table sessions
    h_plans,       \* table plan_versions
    h_results,     \* table execution_results
    h_returned,    \* the ids start_session returned, in order
    h_last,        \* the last call made on the database
    h_history      \* what the last get_session_history call returned

vars == <<x_pc, x_code, x_df, x_schema, x_out, front, pc, n_items, item,
          code_output, exec_result, critique_result, retry_count, success,
          highlights, events, run_result, exec_results, db_rows,
          l_pc, l_df, l_manifest, l_evidence, l_flags,
          a_pc, a_method, a_llm, a_input, a_out, a_df, a_reexec,
          s_pc, s_init, s_sys, s_calls, s_writes,
          h_pc, h_sessions, h_plans, h_results, h_returned, h_last, h_history>>

h_vars == <<h_pc, h_sessions, h_plans, h_results, h_returned, h_last, h_history>>

s_vars == <<s_pc, s_init, s_sys, s_calls, s_writes>>

a_vars == <<a_pc, a_method, a_llm, a_input, a_out, a_df, a_reexec>>

l_vars == <<l_pc, l_df, l_manifest, l_evidence, l_flags>>

x_vars == <<x_pc, x_code, x_df, x_schema, x_out>>

o_vars == <<front, pc, n_items, item, code_output, exec_result,
            critique_result, retry_count, success, highlights, events,
            run_result, exec_results, db_rows>>

(***************************************************************************)
(* Bounds of the model.                                                    *)
(***************************************************************************)
MaxStmts == 3      \* statements per code string in the executor harness
MaxItems == 2      \* plan items per run

(***************************************************************************)
(* Lexical layer.                                                          *)
(***************************************************************************)
SP == " "
NL == "\n"
Whitespace == {SP, NL}

\* Tokens matched by \w+ (identifiers, keywords, numbers).
WordTokens ==
    {"import", "from", "as", "json", "socket", "http", "client", "s",
     "create_connection", "HTTPConnection", "print", "raise", "ValueError",
     "SystemExit", "KeyboardInterrupt", "manifest", "open", "x", "1",
     "id", "charts", "title", "debugging", "boom", "a", "f", "m1",
     "None", "warnings", "warn", "careful", "o", "x_ticks"}

\* HasSuffix(tok, s): the text of word token tok ends with s.  The gate's
\* patterns are unanchored on the left, so a pattern word matches at the end
\* of a longer identifier; within WordTokens only the token itself does.
HasSuffix(tok, s) == tok \in WordTokens /\ tok = s

\* Contains(tok, s): s occurs inside the text of token tok.
Contains(tok, s) == tok = s

(***************************************************************************)
(* The denylists of SandboxExecutor.__init__.                              *)
(***************************************************************************)
forbidden_modules ==
    {"os", "sys", "subprocess", "socket", "http", "urllib", "requests",
     "pathlib", "shutil", "glob", "tempfile", "pickle", "shelve",
     "multiprocessing", "threading", "asyncio", "concurrent"}

forbidden_functions ==
    {"open", "file", "input", "raw_input", "exec", "eval", "compile",
     "reload", "__import__"}

(***************************************************************************)
(* Manifests, charts, datasets.                                            *)
(***************************************************************************)
\* A chart of a manifest.  Absent keys are the has* flags / "absent".
\* notes is the text of the notes field, as tokens ("" when absent).
Chart(ax, title, hasCols, cols, logx, xt, yt, notes, hasRows, rows) ==
    [axis_x |-> ax, title |-> title, hasCols |-> hasCols, columns_used |-> cols,
     log_x |-> logx, x_ticks |-> xt, y_ticks |-> yt, notes |-> notes,
     hasRows |-> hasRows, n_rows_plotted |-> rows]

\* A labelled histogram of column "price" over 100 rows.
ChartGood ==
    Chart("price", "Histogram", TRUE, <<"price">>, FALSE, 10, 10, <<>>, TRUE, 100)
\* The chart the fallback coder's histogram code declares for column
\* "price": the keys saved_path, chart_type, columns_used, n_rows_plotted,
\* axis, encodings, params, notes, and no key title.
ChartFallback ==
    Chart("price", "absent", TRUE, <<"price">>, FALSE, 50, 0,
          <<"NA dropped:", SP, "5", ".", "0", "%">>, TRUE, 100)
\* A chart that declares nothing.
ChartBare ==
    Chart("absent", "absent", FALSE, <<>>, FALSE, 0, 0, <<>>, FALSE, 0)

\* The empty object {}.
\* The value None, which code may bind to the name manifest.
NoneValue == [type |-> "none", id |-> "", hasCharts |-> FALSE, charts |-> <<>>]

EmptyDict == [type |-> "dict", id |-> "", hasCharts |-> FALSE, charts |-> <<>>]
ManifestNoCharts == [type |-> "dict", id |-> "m1", hasCharts |-> FALSE, charts |-> <<>>]
ManifestGood == [type |-> "dict", id |-> "m1", hasCharts |-> TRUE, charts |-> <<ChartGood>>]
ManifestBare == [type |-> "dict", id |-> "m1", hasCharts |-> TRUE, charts |-> <<ChartBare>>]
\* A labelled chart of 100 rows with 21 ticks on the x axis.
ManifestTicks ==
    [type |-> "dict", id |-> "m1", hasCharts |-> TRUE,
     charts |-> <<Chart("x", "T", FALSE, <<>>, FALSE, 21, 10, <<>>, TRUE, 100)>>]

\* A column of a DataFrame: dtype "num" or "cat"; empty = every value missing;
\* skew and cardinality are the statistics pandas/scipy would compute.  load
\* is the column's loading on the dataset's common factor, in tenths: the
\* Pearson correlation of two columns is the product of their loadings, and
\* a column of load 0 is constant (zero variance).
Column(name, dtype, empty, skew, card, load) ==
    [name |-> name, dtype |-> dtype, empty |-> empty, skew |-> skew, card |-> card,
     load |-> load]

DfSmall == <<Column("price", "num", FALSE, 0, 0, 5), Column("city", "cat", FALSE, 0, 3, 0)>>
DfSkewed == <<Column("price", "num", FALSE, 3, 0, 5), Column("city", "cat", FALSE, 0, 20, 0),
              Column("blank", "num", TRUE, 0, 0, 0)>>
\* Six numeric columns with values (fifteen pairs), one constant column and
\* one categorical column.
DfWide == <<Column("price", "num", FALSE, 3, 0, 5), Column("qty", "num", FALSE, 0, 0, -9),
            Column("tax", "num", FALSE, 0, 0, 9), Column("flat", "num", FALSE, 0, 0, 0),
            Column("age", "num", FALSE, -3, 0, 2), Column("score", "num", FALSE, 0, 0, -7),
            Column("city", "cat", FALSE, 0, 20, 0), Column("rank", "num", FALSE, 0, 0, 10),
            Column("size", "num", FALSE, 0, 0, 3)>>
DataFrames == {DfSmall, DfSkewed}

ManifestSchemas == {EmptyDict, ManifestGood}

(***************************************************************************)
(* Statements the executed code is made of: the text the gate reads and    *)
(* the effect the interpreter gives the statement.                         *)
(***************************************************************************)
Statements ==
    {"print_a", "bind_nocharts", "bind_good",
     "bind_bare", "raise_value", "raise_exit", "raise_interrupt",
     "import_json", "import_socket", "import_http_client",
     "import_json_socket", "import_socket_as", "from_socket",
     "from_http_client", "indented", "assign", "comment", "open_call",
     "bind_none", "warn_careful", "alias_open"}

\* The text of a statement, as tokens.
StmtText(s) ==
    CASE s = "print_a" -> <<"print", "(", "'", "a", "'", ")">>
      [] s = "bind_nocharts" ->
            <<"manifest", SP, "=", SP, "{", "'", "id", "'", ":", "'", "m1", "'", "}">>
      [] s = "bind_good" ->
            <<"manifest", SP, "=", SP, "{", "'", "charts", "'", ":", "[", "{", "'",
              "title", "'", "}", "]", "}">>
      [] s = "bind_bare" ->
            <<"manifest", SP, "=", SP, "{", "'", "charts", "'", ":", "[", "{", "}", "]", "}">>
      [] s = "raise_value" -> <<"raise", SP, "ValueError", "(", "'", "boom", "'", ")">>
      [] s = "raise_exit" -> <<"raise", SP, "SystemExit", "(", "1", ")">>
      [] s = "raise_interrupt" -> <<"raise", SP, "KeyboardInterrupt", "(", ")">>
      [] s = "import_json" -> <<"import", SP, "json">>
      [] s = "import_socket" -> <<"import", SP, "socket">>
      [] s = "import_http_client" -> <<"import", SP, "http", ".", "client">>
      [] s = "import_json_socket" -> <<"import", SP, "json", ",", SP, "socket">>
      [] s = "import_socket_as" -> <<"import", SP, "socket", SP, "as", SP, "s">>
      [] s = "from_socket" ->
            <<"from", SP, "socket", SP, "import", SP, "create_connection">>
      [] s = "from_http_client" ->
            <<"from", SP, "http", ".", "client", SP, "import", SP, "HTTPConnection">>
      [] s = "indented" -> <<SP, SP, "x", SP, "=", SP, "1">>
      [] s = "assign" -> <<"x", SP, "=", SP, "1">>
      [] s = "comment" -> <<"#", SP, "debugging">>
      [] s = "open_call" -> <<"open", "(", "'", "f", "'", ")">>
      [] s = "bind_none" -> <<"manifest", SP, "=", SP, "None">>
      [] s = "warn_careful" ->
            <<"import", SP, "warnings", ";", SP, "warnings", ".", "warn", "(",
              "'", "careful", "'", ")">>
      [] s = "alias_open" -> <<"o", SP, "=", SP, "open">>
      [] s = "continued" -> <<"x", SP, "=", SP, "1", SP, "\\">>
      [] s = "bind_ticks" ->
            <<"manifest", SP, "=", SP, "{", "'", "charts", "'", ":", "[", "{", "'",
              "title", "'", ",", "'", "x_ticks", "'", "}", "]", "}">>

\* What the interpreter does with a statement.  k: "out" prints arg, "err"
\* writes arg to the standard-error stream,
\* "bind" binds the name manifest to m, "raise" raises arg, "import" imports
\* the modules mods, "syntax" makes compilation of the whole code fail with
\* arg, "nop" does nothing, "open" opens a file, "name" reads the global
\* name arg, "continue" is a statement whose line ends with a backslash:
\* the next line is joined to it.
Eff(k, arg, m, mods) == [k |-> k, arg |-> arg, m |-> m, mods |-> mods]

StmtEffect(s) ==
    CASE s = "print_a" -> Eff("out", "a", EmptyDict, {})
      [] s = "bind_nocharts" -> Eff("bind", "", ManifestNoCharts, {})
      [] s = "bind_good" -> Eff("bind", "", ManifestGood, {})
      [] s = "bind_bare" -> Eff("bind", "", ManifestBare, {})
      [] s = "raise_value" -> Eff("raise", "ValueError", EmptyDict, {})
      [] s = "raise_exit" -> Eff("raise", "SystemExit", EmptyDict, {})
      [] s = "raise_interrupt" -> Eff("raise", "KeyboardInterrupt", EmptyDict, {})
      [] s = "import_json" -> Eff("import", "", EmptyDict, {"json"})
      [] s = "import_socket" -> Eff("import", "", EmptyDict, {"socket"})
      [] s = "import_http_client" -> Eff("import", "", EmptyDict, {"http"})
      [] s = "import_json_socket" -> Eff("import", "", EmptyDict, {"json", "socket"})
      [] s = "import_socket_as" -> Eff("import", "", EmptyDict, {"socket"})
      [] s = "from_socket" -> Eff("import", "", EmptyDict, {"socket"})
      [] s = "from_http_client" -> Eff("import", "", EmptyDict, {"http"})
      [] s = "indented" -> Eff("syntax", "IndentationError", EmptyDict, {})
      [] s = "assign" -> Eff("nop", "", EmptyDict, {})
      [] s = "comment" -> Eff("nop", "", EmptyDict, {})
      [] s = "open_call" -> Eff("open", "", EmptyDict, {})
      [] s = "bind_none" -> Eff("bind", "", NoneValue, {})
      [] s = "warn_careful" -> Eff("err", "UserWarning: careful", EmptyDict, {"warnings"})
      [] s = "alias_open" -> Eff("name", "open", EmptyDict, {})
      [] s = "continued" -> Eff("continue", "SyntaxError", EmptyDict, {})
      [] s = "bind_ticks" -> Eff("bind", "", ManifestTicks, {})

\* str(e) of the faults the statements raise.
FaultMessage(kind) ==
    CASE kind = "ValueError" -> "boom"
      [] kind = "IndentationError" -> "unexpected indent"
      [] kind = "SyntaxError" -> "invalid syntax"
      [] kind = "SystemExit" -> "1"
      [] kind = "TypeError" -> "argument of type 'NoneType' is not iterable"
      [] OTHER -> ""

\* Faults that derive from Exception; SystemExit and KeyboardInterrupt derive
\* from BaseException only.
ExceptionKinds == {"ValueError", "IndentationError", "TypeError", "ImportError",
                   "NameError", "SyntaxError"}

\* Code strings: sequences of statements, one per line.
RECURSIVE SeqsUpTo(_, _)
SeqsUpTo(S, n) ==
    IF n = 0 THEN {<<>>}
    ELSE LET shorter == SeqsUpTo(S, n - 1)
         IN shorter \cup {Append(p, s) : p \in shorter, s \in S}

Programs == SeqsUpTo(Statements, MaxStmts)

\* The text of a code string: its statements' texts joined by newlines.
RECURSIVE CodeText(_)
CodeText(code) ==
    IF code = <<>> THEN <<>>
    ELSE IF Len(code) = 1 THEN StmtText(code[1])
    ELSE StmtText(code[1]) \o <<NL>> \o CodeText(Tail(code))

\* The modules a code string imports when it runs (top-level package names).
ImportedModules(code) ==
    UNION {StmtEffect(code[i]).mods : i \in 1..Len(code)}

(***************************************************************************)
(* Security gate: SandboxExecutor._is_code_safe.                           *)
(***************************************************************************)
\* First index after position i of text that holds no whitespace token
\* (Len(text) + 1 when there is none): the end of a \s+ match.
RECURSIVE SkipWhitespace(_, _)
SkipWhitespace(text, i) ==
    IF i > Len(text) THEN i
    ELSE IF text[i] \in Whitespace THEN SkipWhitespace(text, i + 1)
    ELSE i

\* group(1) of every match of keyword\s+(\w+) in text: the word that
\* follows the keyword and at least one whitespace character.
KeywordMatches(text, keyword) ==
    {text[SkipWhitespace(text, i + 1)] :
        i \in {j \in 1..Len(text) :
                 /\ HasSuffix(text[j], keyword)
                 /\ j + 1 <= Len(text)
                 /\ text[j + 1] \in Whitespace
                 /\ SkipWhitespace(text, j + 1) <= Len(text)
                 /\ text[SkipWhitespace(text, j + 1)] \in WordTokens}}

\* match.group(1).split(".")[0]: \w+ never holds a ".", so the split
\* returns the matched word whole.
SplitFirst(word) == word

\* f"{func}(" in code
CallsFunction(text, func) ==
    \E i \in 1..Len(text) - 1 : HasSuffix(text[i], func) /\ text[i + 1] = "("

\* pattern in code, for the patterns "pathlib", "os." and "sys."
\* ("open(" and "file(" are CallsFunction).
HasAccessPattern(text) ==
    \/ CallsFunction(text, "open")
    \/ CallsFunction(text, "file")
    \/ \E i \in 1..Len(text) : Contains(text[i], "pathlib")
    \/ \E i \in 1..Len(text) - 1 : HasSuffix(text[i], "os") /\ text[i + 1] = "."
    \/ \E i \in 1..Len(text) - 1 : HasSuffix(text[i], "sys") /\ text[i + 1] = "."

is_code_safe(text) ==
    /\ \A w \in KeywordMatches(text, "import") : SplitFirst(w) \notin forbidden_modules
    /\ \A w \in KeywordMatches(text, "from") : SplitFirst(w) \notin forbidden_modules
    /\ \A func \in forbidden_functions : ~CallsFunction(text, func)
    /\ ~HasAccessPattern(text)

(***************************************************************************)
(* The interpreter: exec(code, namespace).                                 *)
(***************************************************************************)
\* _get_safe_builtins: the names copied from the builtins module.
safe_builtins ==
    {"len", "range", "enumerate", "zip", "map", "filter", "sorted", "min", "max",
     "sum", "abs", "round", "int", "float", "str", "bool", "list", "dict",
     "tuple", "set", "type", "isinstance", "print", "repr", "dir", "hasattr",
     "getattr", "setattr"}

\* The keys of the namespace dict execute builds.
Namespace == {"df", "pd", "np", "plt", "matplotlib", "stats"} \cup safe_builtins

\* Names of the builtins module: the safe ones and those that reach the
\* filesystem, the process or the import system.
UnsafeBuiltins == {"open", "__import__", "exec", "eval", "compile", "input"}
BuiltinsModule == safe_builtins \cup UnsafeBuiltins

\* exec(code, globals): when globals has no key "__builtins__", exec
\* inserts a reference to the builtins module under that key before it
\* runs the code.
ExecGlobals(namespace) ==
    IF "__builtins__" \in namespace THEN namespace
    ELSE namespace \cup {"__builtins__"}

\* A global name lookup: the globals dict, then the builtins it refers to.
Resolves(name) ==
    \/ name \in ExecGlobals(Namespace)
    \/ "__builtins__" \in ExecGlobals(Namespace) \ Namespace /\ name \in BuiltinsModule

\* State of a run: what was written to standard output and to standard
\* error, whether and to what the name manifest is bound, the modules
\* imported, the fault raised ("" while none), and the builtin names the
\* code obtained.
RunState(out, err, bound, m, mods, fault, names) ==
    [out |-> out, err |-> err, bound |-> bound, manifest |-> m, imported |-> mods,
     fault |-> fault, names |-> names]

RECURSIVE RunFrom(_, _, _)
RunFrom(code, i, st) ==
    IF i > Len(code) \/ st.fault # "" THEN st
    ELSE LET e == StmtEffect(code[i])
         IN RunFrom(code, i + 1,
              CASE e.mods # {} /\ ~Resolves("__import__") ->
                        [st EXCEPT !.fault = "ImportError"]
                [] e.k = "name" /\ ~Resolves(e.arg) ->
                        [st EXCEPT !.fault = "NameError"]
                [] e.k = "name" -> [st EXCEPT !.names = @ \cup {e.arg}]
                [] e.k = "out" -> [st EXCEPT !.out = Append(@, e.arg)]
                [] e.k = "err" -> [st EXCEPT !.err = Append(@, e.arg),
                                             !.imported = @ \cup e.mods]
                [] e.k = "bind" -> [st EXCEPT !.bound = TRUE, !.manifest = e.m]
                [] e.k = "raise" -> [st EXCEPT !.fault = e.arg]
                [] e.k = "import" -> [st EXCEPT !.imported = @ \cup e.mods]
                [] OTHER -> st)

\* Statement i of code does not compile: its own text does not, or its line
\* ends with a backslash and the line joined to it is the end of the code
\* or another statement.  A comment line joined to it completes it.
Uncompilable(code, i) ==
    \/ StmtEffect(code[i]).k = "syntax"
    \/ /\ StmtEffect(code[i]).k = "continue"
       /\ ~(i < Len(code) /\ code[i + 1] = "comment")

\* exec compiles the whole string before it runs any of it: a statement
\* that does not compile raises before anything is printed or bound.
RunCode(code) ==
    LET bad == {i \in 1..Len(code) : Uncompilable(code, i)}
        start == RunState(<<>>, <<>>, FALSE, EmptyDict, {}, "", {})
    IN IF bad # {}
       THEN [start EXCEPT !.fault =
                StmtEffect(code[CHOOSE i \in bad : \A j \in bad : i <= j]).arg]
       ELSE RunFrom(code, 1, start)

(***************************************************************************)
(* Evidence generator: SandboxExecutor._generate_evidence.                 *)
(***************************************************************************)
\* Elements of a sequence.
Range(sq) == {sq[i] : i \in 1..Len(sq)}

\* used_columns: the union of columns_used over the charts that have it.
UsedColumns(manifest) ==
    IF manifest.hasCharts
    THEN UNION {Range(manifest.charts[i].columns_used) :
                  i \in {j \in 1..Len(manifest.charts) : manifest.charts[j].hasCols}}
    ELSE {}

\* Columns of dtype that get an entry: used (or no restriction), and with at
\* least one value left after dropna().
EvidenceColumns(df, manifest, dtype) ==
    {i \in 1..Len(df) :
        /\ df[i].dtype = dtype
        /\ (df[i].name \in UsedColumns(manifest) \/ UsedColumns(manifest) = {})
        /\ ~df[i].empty}

\* The evidence {} of a failed call.
EmptyEvidence == [keys |-> {}, numeric |-> {}, categorical |-> {}]

TopCorrelations == 10

\* np.isnan(corr_matrix.iloc[i, j]): either column is constant or has no
\* value.
CorrIsNaN(a, b) == a.empty \/ b.empty \/ a.load = 0 \/ b.load = 0

\* corr_matrix.iloc[i, j], in hundredths, where it is a number.
Corr(a, b) == a.load * b.load

\* The pairs [col1, col2, corr_val] with j from i + 1 on, NaN left out.
RECURSIVE CorrRow(_, _, _)
CorrRow(cols, i, j) ==
    IF j > Len(cols) THEN <<>>
    ELSE (IF CorrIsNaN(cols[i], cols[j]) THEN <<>>
          ELSE <<<<cols[i].name, cols[j].name, Corr(cols[i], cols[j])>>>>)
         \o CorrRow(cols, i, j + 1)

\* corr_pairs: the double loop over i and j > i.
RECURSIVE CorrPairs(_, _)
CorrPairs(cols, i) ==
    IF i > Len(cols) THEN <<>>
    ELSE CorrRow(cols, i, i + 1) \o CorrPairs(cols, i + 1)

\* Insertion into a sequence sorted by decreasing key, after the elements
\* of equal key (list.sort is stable, also with reverse=True).
RECURSIVE InsertByKey(_, _, _)
InsertByKey(sorted, e, k) ==
    IF k > Len(sorted) THEN Append(sorted, e)
    ELSE IF sorted[k][3] * sorted[k][3] >= e[3] * e[3]
         THEN InsertByKey(sorted, e, k + 1)
         ELSE SubSeq(sorted, 1, k - 1) \o <<e>> \o SubSeq(sorted, k, Len(sorted))

\* corr_pairs.sort(key=lambda x: abs(x[2]), reverse=True)
RECURSIVE SortByAbsCorr(_)
SortByAbsCorr(pairs) ==
    IF pairs = <<>> THEN <<>>
    ELSE InsertByKey(SortByAbsCorr(SubSeq(pairs, 1, Len(pairs) - 1)),
                     pairs[Len(pairs)], 1)

\* The numeric columns of df, in column order.
NumericColumns(df) == SelectSeq(df, LAMBDA c : c.dtype = "num")

\* The relationships entry without the cut to the first ten pairs.
MutRelationshipsKeepAll(df, manifest) ==
    IF Len(NumericColumns(df)) > 1
    THEN [has |-> TRUE,
          corr_pearson_top |-> SortByAbsCorr(CorrPairs(NumericColumns(df), 1))]
    ELSE [has |-> FALSE, corr_pearson_top |-> <<>>]

\* evidence["relationships"]: corr_pearson_top is set only when df has more
\* than one numeric column; the manifest plays no part.
Relationships(df, manifest) ==
    IF Len(NumericColumns(df)) > 1
    THEN LET sorted == SortByAbsCorr(CorrPairs(NumericColumns(df), 1))
         IN [has |-> TRUE,
             corr_pearson_top |->
                 SubSeq(sorted, 1, IF Len(sorted) < TopCorrelations THEN Len(sorted)
                                   ELSE TopCorrelations)]
    ELSE [has |-> FALSE, corr_pearson_top |-> <<>>]

generate_evidence(df, manifest) ==
    [keys |-> {"numeric", "categorical", "relationships", "timeseries"},
     numeric |-> {[col |-> df[i].name, skew |-> df[i].skew] :
                    i \in EvidenceColumns(df, manifest, "num")},
     categorical |-> {[col |-> df[i].name, cardinality |-> df[i].card] :
                    i \in EvidenceColumns(df, manifest, "cat")},
     relationships |-> Relationships(df, manifest)]

(***************************************************************************)
(* Linter: SandboxExecutor._run_linter.                                    *)
(***************************************************************************)
CardinalityLimit == 15
SkewLimit == 2
TicksLimit == 20
NaDropLimit == 20            \* percent
MinRowsPlotted == 50

Flag(level, code, msg) == [level |-> level, code |-> code, msg |-> msg]

Abs(k) == IF k < 0 THEN -k ELSE k

\* The column rules emitting their flags at level "error".
RECURSIVE MutColumnFlagsError(_, _, _, _)
MutColumnFlagsError(cols, i, hits, code) ==
    IF i > Len(cols) THEN <<>>
    ELSE (IF cols[i] \in hits THEN <<Flag("error", code, cols[i])>> ELSE <<>>)
         \o MutColumnFlagsError(cols, i + 1, hits, code)

\* The column rules flagging every listed column that has no evidence.
RECURSIVE MutColumnFlagsUnknown(_, _, _, _)
MutColumnFlagsUnknown(cols, i, hits, code) ==
    IF i > Len(cols) THEN <<>>
    ELSE (IF cols[i] \in hits \/ cols[i] = "ghost"
          THEN <<Flag("warn", code, cols[i])>> ELSE <<>>)
         \o MutColumnFlagsUnknown(cols, i + 1, hits, code)

\* Flags of one rule that loops over columns_used: one flag per listed
\* column that is among hits, in list order.
RECURSIVE ColumnFlags(_, _, _, _)
ColumnFlags(cols, i, hits, code) ==
    IF i > Len(cols) THEN <<>>
    ELSE (IF cols[i] \in hits THEN <<Flag("warn", code, cols[i])>> ELSE <<>>)
         \o ColumnFlags(cols, i + 1, hits, code)

\* The text of the notes field: the marker "NA dropped:" is one token,
\* digit runs (\d+) are tokens, every other character or word is a token.
NaMarker == "NA dropped:"
DigitRuns == {"0", "5", "05", "19", "20", "21", "25", "30"}

\* int(run) for a digit run.
DigitValue(run) ==
    CASE run = "0" -> 0 [] run = "5" -> 5 [] run = "05" -> 5 [] run = "19" -> 19
      [] run = "20" -> 20 [] run = "21" -> 21 [] run = "25" -> 25 [] run = "30" -> 30

\* The value of the digits after the decimal point, in hundredths.
FractionHundredths(run) ==
    CASE run = "0" -> 0 [] run = "5" -> 50 [] run = "05" -> 5 [] run = "19" -> 19
      [] run = "20" -> 20 [] run = "21" -> 21 [] run = "25" -> 25 [] run = "30" -> 30

\* The pattern NA dropped: (\d+(?:\.\d+)?)% matches at token i of notes.
NaPatternAt(notes, i) ==
    /\ i + 3 <= Len(notes)
    /\ notes[i] = NaMarker
    /\ notes[i + 1] = SP
    /\ notes[i + 2] \in DigitRuns
    /\ \/ notes[i + 3] = "%"
       \/ /\ i + 5 <= Len(notes)
          /\ notes[i + 3] = "."
          /\ notes[i + 4] \in DigitRuns
          /\ notes[i + 5] = "%"

\* float(match.group(1)) of the leftmost match, in hundredths of a percent;
\* -1 when "NA dropped:" is not in notes or re.search returns None.
ParseNaDropped(notes) ==
    LET hits == {i \in 1..Len(notes) : NaPatternAt(notes, i)}
    IN IF hits = {} THEN -1
       ELSE LET i == CHOOSE k \in hits : \A j \in hits : k <= j
            IN 100 * DigitValue(notes[i + 2])
               + (IF notes[i + 3] = "." THEN FractionHundredths(notes[i + 4]) ELSE 0)

\* The threshold of rule HIGH_NA_DROP read as "at least".
MutNaDropRuleInclusive(chart) ==
    /\ ParseNaDropped(chart.notes) >= 0
    /\ ParseNaDropped(chart.notes) >= 100 * NaDropLimit

\* Rule HIGH_NA_DROP: na_percent > 20.
NaDropRule(chart) ==
    /\ ParseNaDropped(chart.notes) >= 0
    /\ ParseNaDropped(chart.notes) > 100 * NaDropLimit

\* The threshold of rule EMPTY_PLOT read as "at most".
MutEmptyPlotRuleInclusive(chart) ==
    (IF chart.hasRows THEN chart.n_rows_plotted ELSE 0) <= MinRowsPlotted

\* Rule EMPTY_PLOT: chart.get("n_rows_plotted", 0) < 50.
EmptyPlotRule(chart) ==
    (IF chart.hasRows THEN chart.n_rows_plotted ELSE 0) < MinRowsPlotted

\* The flags of one chart, in rule order.
ChartFlags(chart, evidence) ==
    LET highCard == {e.col : e \in {c \in evidence.categorical :
                                      c.cardinality > CardinalityLimit}}
        highSkew == {e.col : e \in {c \in evidence.numeric :
                                      Abs(c.skew) > SkewLimit /\ ~chart.log_x}}
        cols == IF chart.hasCols THEN chart.columns_used ELSE <<>>
    IN  (IF chart.axis_x \in {"absent", ""} \/ chart.title \in {"absent", ""}
         THEN <<Flag("warn", "MISSING_LABELS", "")>> ELSE <<>>)
        \o ColumnFlags(cols, 1, highCard, "HIGH_CARDINALITY")
        \o ColumnFlags(cols, 1, highSkew, "HIGH_SKEW_NO_LOG")
        \o (IF chart.x_ticks > TicksLimit \/ chart.y_ticks > TicksLimit
            THEN <<Flag("warn", "MANY_TICKS", "")>> ELSE <<>>)
        \o (IF NaDropRule(chart)
            THEN <<Flag("warn", "HIGH_NA_DROP", "")>> ELSE <<>>)
        \o (IF EmptyPlotRule(chart)
            THEN <<Flag("warn", "EMPTY_PLOT", "")>> ELSE <<>>)

\* The loop over the charts run from the last chart to the first.
RECURSIVE MutChartsFlagsReversed(_, _, _)
MutChartsFlagsReversed(charts, i, evidence) ==
    IF i > Len(charts) THEN <<>>
    ELSE MutChartsFlagsReversed(charts, i + 1, evidence) \o ChartFlags(charts[i], evidence)

\* for chart in manifest["charts"]: the flags of the charts, in chart order.
RECURSIVE ChartsFlags(_, _, _)
ChartsFlags(charts, i, evidence) ==
    IF i > Len(charts) THEN <<>>
    ELSE ChartFlags(charts[i], evidence) \o ChartsFlags(charts, i + 1, evidence)

\* The linter with a missing charts key read as one chart that declares nothing.
MutLinterDefaultChart(manifest, evidence) ==
    ChartsFlags(IF manifest.hasCharts THEN manifest.charts ELSE <<ChartBare>>, 1, evidence)

run_linter(manifest, evidence) ==
    IF ~manifest.hasCharts THEN <<>>
    ELSE ChartsFlags(manifest.charts, 1, evidence)

(***************************************************************************)
(* SandboxExecutor.execute.                                                *)
(***************************************************************************)
ExecutionResult(ok, stdout, error, manifest, evidence, flags) ==
    [exec_ok |-> ok, stdout |-> stdout, error |-> error, manifest |-> manifest,
     evidence |-> evidence, linter_flags |-> flags]

NoResult == [none |-> TRUE]

ForbiddenMsg == "Code contains forbidden operations"
TracebackText == "Traceback (most recent call last)"

\* The result execute returns without running anything, when the gate
\* rejects the code.
RejectedResult ==
    ExecutionResult(FALSE, <<>>, <<ForbiddenMsg>>, EmptyDict, EmptyEvidence,
                    <<Flag("error", "FORBIDDEN_CODE", ForbiddenMsg)>>)

\* The fault result with the manifest bound so far left in it.
MutFaultKeepsManifest(run) ==
    ExecutionResult(FALSE, run.out,
                    <<run.fault, ": ", FaultMessage(run.fault), NL, TracebackText>>,
                    run.manifest, EmptyEvidence,
                    <<Flag("error", "EXECUTION_ERROR", FaultMessage(run.fault))>>)

\* The result of the except Exception handler: f"{type(e).__name__}:
\* {str(e)}\n{traceback.format_exc()}", with what was printed so far.
FaultResult(run) ==
    ExecutionResult(FALSE, run.out,
                    <<run.fault, ": ", FaultMessage(run.fault), NL, TracebackText>>,
                    EmptyDict, EmptyEvidence,
                    <<Flag("error", "EXECUTION_ERROR", FaultMessage(run.fault))>>)

\* The result of a run that raised nothing: namespace.get("manifest", {}),
\* then the evidence generator, then the linter.
SuccessResult(run, df) ==
    LET manifest == IF run.bound THEN run.manifest ELSE EmptyDict
        evidence == generate_evidence(df, manifest)
    IN ExecutionResult(TRUE, run.out, <<>>, manifest, evidence,
                       run_linter(manifest, evidence))

\* "charts" in manifest raises TypeError when the code bound the name
\* manifest to a value that is no container.
EvidenceRaises(manifest) == manifest.type # "dict"

\* What a call of execute does: returned says whether it returned a result
\* (res) or let a fault (raised) propagate to its caller; engine, whether
\* exec was called on the code; imported, the modules the code imported;
\* evidenced and linted, whether those stages ran; names, the builtin
\* names the code obtained.
Outcome(returned, res, raised, engine, imported, evidenced, linted, names) ==
    [returned |-> returned, res |-> res, raised |-> raised, engine |-> engine,
     imported |-> imported, evidenced |-> evidenced, linted |-> linted,
     names |-> names]

\* The rest of the try block once exec has returned: manifest, evidence,
\* linter, result.  A fault of the evidence generator is caught by the same
\* except clause as a fault of the code.
AfterExec(run, df) ==
    LET manifest == IF run.bound THEN run.manifest ELSE EmptyDict
    IN IF EvidenceRaises(manifest)
       THEN Outcome(TRUE, FaultResult([run EXCEPT !.fault = "TypeError"]), "",
                    TRUE, run.imported, TRUE, FALSE, run.names)
       ELSE Outcome(TRUE, SuccessResult(run, df), "", TRUE, run.imported, TRUE, TRUE, run.names)

\* execute with the gate's verdict applied only after the code was run.
MutExecuteGateAfterRun(code, df, manifest_schema) ==
    LET run == RunCode(code)
    IN IF ~is_code_safe(CodeText(code))
       THEN Outcome(TRUE, RejectedResult, "", TRUE, run.imported, FALSE, FALSE, run.names)
       ELSE IF run.fault = ""
       THEN AfterExec(run, df)
       ELSE IF run.fault \in ExceptionKinds
       THEN Outcome(TRUE, FaultResult(run), "", TRUE, run.imported, FALSE, FALSE, run.names)
       ELSE Outcome(FALSE, NoResult, run.fault, TRUE, run.imported, FALSE, FALSE, run.names)

\* execute with the produced manifest compared against manifest_schema and
\* a mismatch turned into a fault.
MutExecuteEnforcesSchema(code, df, manifest_schema) ==
    IF ~is_code_safe(CodeText(code))
    THEN Outcome(TRUE, RejectedResult, "", FALSE, {}, FALSE, FALSE, {})
    ELSE LET run == RunCode(code)
         IN IF run.fault = ""
            THEN IF AfterExec(run, df).res.exec_ok
                    /\ AfterExec(run, df).res.manifest # manifest_schema
                 THEN Outcome(TRUE, FaultResult([run EXCEPT !.fault = "ValueError"]),
                              "", TRUE, run.imported, TRUE, TRUE, run.names)
                 ELSE AfterExec(run, df)
            ELSE IF run.fault \in ExceptionKinds
            THEN Outcome(TRUE, FaultResult(run), "", TRUE, run.imported, FALSE, FALSE, run.names)
            ELSE Outcome(FALSE, NoResult, run.fault, TRUE, run.imported, FALSE, FALSE, run.names)

execute(code, df, manifest_schema) ==
    IF ~is_code_safe(CodeText(code))
    THEN Outcome(TRUE, RejectedResult, "", FALSE, {}, FALSE, FALSE, {})
    ELSE LET run == RunCode(code)
         IN IF run.fault = ""
            THEN AfterExec(run, df)
            ELSE IF run.fault \in ExceptionKinds
            THEN Outcome(TRUE, FaultResult(run), "", TRUE, run.imported, FALSE, FALSE, run.names)
            ELSE Outcome(FALSE, NoResult, run.fault, TRUE, run.imported, FALSE, FALSE, run.names)

(***************************************************************************)
(* Executor harness: one call of execute on arguments drawn at Init.       *)
(***************************************************************************)
NoOutcome == Outcome(FALSE, NoResult, "", FALSE, {}, FALSE, FALSE, {})

XInit ==
    /\ x_pc = "ready"
    /\ x_code \in Programs
    /\ x_df \in DataFrames
    /\ x_schema \in ManifestSchemas
    /\ x_out = NoOutcome

XIdle ==
    /\ x_pc = "idle"
    /\ x_code = <<>>
    /\ x_df = DfSmall
    /\ x_schema = EmptyDict
    /\ x_out = NoOutcome

ExecuteCall ==
    /\ x_pc = "ready"
    /\ x_out' = execute(x_code, x_df, x_schema)
    /\ x_pc' = "done"
    /\ UNCHANGED <<x_code, x_df, x_schema>>
    /\ UNCHANGED <<o_vars, l_vars, a_vars, s_vars, h_vars>>

(***************************************************************************)
(* Evidence and linter harness: _generate_evidence, then _run_linter, on a *)
(* dataset and a manifest drawn at Init, as the try block of execute calls *)
(* them.                                                                   *)
(***************************************************************************)
MaxCharts == 2     \* charts per manifest in the harness

\* Texts of the notes field.
NoteTexts ==
    {<<>>,
     <<"rows", SP, "25", "%">>,
     <<NaMarker, SP, "20", ".", "0", "%">>,
     <<NaMarker, SP, "20", "%">>,
     <<NaMarker, SP, "20", ".", "05", "%">>,
     <<NaMarker, SP, "19", ".", "5", "%">>,
     <<NaMarker, SP, "21", "%">>,
     <<NaMarker, SP, "5", ".", "30", "%">>,
     <<"hist", ";", SP, NaMarker, SP, "25", ".", "0", "%", SP, "of", SP, "rows">>,
     <<NaMarker, SP, "abc", "%">>,
     <<NaMarker, SP, "25">>,
     <<NaMarker, SP, "-", "25", "%">>,
     <<NaMarker, SP, "abc", "%", ";", SP, NaMarker, SP, "30", "%">>}

ColumnLists ==
    {<<>>, <<"price">>, <<"city">>, <<"ghost">>, <<"ghost", "price">>,
     <<"city", "ghost">>, <<"price", "city">>}

RowCounts == {0, 10, 49, 50, 51}

\* Charts the code may declare: every column list with a row count on
\* either side of the EMPTY_PLOT threshold, every row count, every notes
\* text, and charts without labels, without keys, with a log axis and with
\* many ticks.
LintCharts ==
    {Chart("x", "T", TRUE, cols, FALSE, 10, 10, <<>>, TRUE, rows) :
        cols \in ColumnLists, rows \in {49, 50}}
    \cup {Chart("x", "T", TRUE, <<"price">>, FALSE, 10, 10, <<>>, TRUE, rows) :
            rows \in RowCounts}
    \cup {Chart("x", "T", TRUE, <<"price">>, FALSE, 10, 10, notes, TRUE, 100) :
            notes \in NoteTexts}
    \cup {ChartGood, ChartBare, ChartFallback,
          Chart("x", "T", FALSE, <<>>, FALSE, 10, 10, <<>>, TRUE, 100),
          Chart("x", "T", TRUE, <<"price">>, TRUE, 10, 10, <<>>, TRUE, 100),
          Chart("x", "T", TRUE, <<"price">>, FALSE, 21, 10, <<>>, TRUE, 100),
          Chart("", "T", TRUE, <<"ghost">>, FALSE, 10, 10, <<>>, TRUE, 100),
          Chart("x", "T", TRUE, <<"ghost">>, FALSE, 10, 10, <<>>, FALSE, 0)}

\* Manifests: without the charts key, or with up to MaxCharts charts.
LintManifests ==
    {EmptyDict, ManifestNoCharts}
    \cup {[type |-> "dict", id |-> "m1", hasCharts |-> TRUE, charts |-> cs] :
            cs \in SeqsUpTo(LintCharts, MaxCharts)}

LintDataFrames == {DfSmall, DfSkewed, DfWide}

LInit ==
    /\ l_pc = "ready"
    /\ l_df \in LintDataFrames
    /\ l_manifest \in LintManifests
    /\ l_evidence = EmptyEvidence
    /\ l_flags = <<>>

LIdle ==
    /\ l_pc = "idle"
    /\ l_df = DfSmall
    /\ l_manifest = EmptyDict
    /\ l_evidence = EmptyEvidence
    /\ l_flags = <<>>

\* evidence = self._generate_evidence(df, manifest)
EvidenceCall ==
    /\ l_pc = "ready"
    /\ l_evidence' = generate_evidence(l_df, l_manifest)
    /\ l_pc' = "evidence"
    /\ UNCHANGED <<l_df, l_manifest, l_flags>>
    /\ UNCHANGED <<x_vars, o_vars, a_vars, s_vars, h_vars>>

\* linter_flags = self._run_linter(manifest, evidence)
LinterCall ==
    /\ l_pc = "evidence"
    /\ l_flags' = run_linter(l_manifest, l_evidence)
    /\ l_pc' = "done"
    /\ UNCHANGED <<l_df, l_manifest, l_evidence>>
    /\ UNCHANGED <<x_vars, o_vars, a_vars, s_vars, h_vars>>

(***************************************************************************)
(* Agent boundaries: PlannerAgent.plan, CodeWriterAgent.write_code,        *)
(* CriticAgent.critique, ReporterAgent.report.  Each builds its prompt,    *)
(* then calls llm_client.complete_with_system_prompt inside try/except     *)
(* Exception and falls back to a rule-based result when the call raises.   *)
(***************************************************************************)
AgentMethods == {"plan", "write_code", "critique", "report"}

\* llm_client: "answers" returns a JSON object of the requested shape,
\* "answers_other" a JSON object of another shape, "none" is llm_client =
\* None (the attribute access raises AttributeError), "raises" is a call
\* that raises Exception (request failed, unparseable JSON).
LlmStates == {"answers", "answers_other", "none", "raises"}

\* The keys of each boundary's result, as its output_contract states them.
ResultShape(method) ==
    CASE method = "plan" -> {"eda_plan"}
      [] method = "write_code" -> {"title", "python", "expected_outputs", "manifest_schema"}
      [] method = "critique" -> {"status", "fix_patch", "notes"}
      [] method = "report" -> {"markdown", "next_questions"}

\* The names a prompt builder reads that are bound neither in the function
\* nor in its module: _build_planner_prompt reads plot_types.
UnboundNames(method) == IF method = "plan" THEN {"plot_types"} ELSE {}

AgentResult(raised, source, keys, value) ==
    [raised |-> raised, source |-> source, keys |-> keys, value |-> value]

NoValue == [status |-> "", fix_patch |-> <<>>]

\* The fallback critique without its test of the high-priority warnings.
MutFallbackCritiqueNoWarnings(result) ==
    LET flags == result.linter_flags
    IN IF ~result.exec_ok
       THEN [status |-> "fix", fix_patch |-> <<"comment">>]
       ELSE IF \E i \in 1..Len(flags) : flags[i].level = "error"
       THEN [status |-> "fix", fix_patch |-> <<"comment">>]
       ELSE [status |-> "ok", fix_patch |-> <<>>]

\* _create_fallback_critique(exec_result)
create_fallback_critique(result) ==
    LET flags == result.linter_flags
    IN IF ~result.exec_ok
       THEN [status |-> "fix", fix_patch |-> <<"comment">>]
       ELSE IF \E i \in 1..Len(flags) : flags[i].level = "error"
       THEN [status |-> "fix", fix_patch |-> <<"comment">>]
       ELSE IF \E i \in 1..Len(flags) :
                 flags[i].code \in {"HIGH_SKEW_NO_LOG", "MISSING_LABELS", "EMPTY_PLOT"}
       THEN [status |-> "fix", fix_patch |-> <<"comment">>]
       ELSE [status |-> "ok", fix_patch |-> <<>>]

\* The rule-based result of a boundary.
Fallback(method, input) ==
    AgentResult("", "fallback", ResultShape(method),
                IF method = "critique" THEN create_fallback_critique(input.exec_result)
                ELSE NoValue)

\* One call of a boundary: the prompt is built before the try statement, so
\* a fault of the builder leaves the method; the llm call is inside it.
AgentCall(method, llm, input) ==
    IF UnboundNames(method) # {}
    THEN AgentResult("NameError", "none", {}, NoValue)
    ELSE IF llm \in {"none", "raises"}
    THEN Fallback(method, input)
    ELSE AgentResult("", "llm",
                     IF llm = "answers" THEN ResultShape(method) ELSE {"text"},
                     NoValue)

\* A code artifact of the coder: {python, manifest_schema}.
CodeArtifact(python) == [python |-> python, manifest_schema |-> ManifestGood]
NoCode == CodeArtifact(<<>>)

\* Arguments of the calls: the code artifact and the execution result given
\* to critique, the plots and columns of the item given to write_code, the
\* number of highlights given to report and of profile columns given to
\* plan.
AgentInput(code, result, plots, columns, n) ==
    [code_output |-> code, exec_result |-> result, plots |-> plots,
     columns |-> columns, n |-> n]

\* Code whose execution result the critic is given: code that succeeds
\* without flags, with flags of each kind, code that faults, code that does
\* not compile, code the gate rejects.
CritiquePrograms ==
    {<<"print_a", "bind_good">>, <<"bind_bare">>, <<"bind_ticks">>,
     <<"bind_nocharts">>, <<"print_a">>, <<"print_a", "raise_value">>,
     <<"indented">>, <<"import_socket">>, <<"bind_none">>, <<"continued">>,
     <<"bind_good", "continued">>, <<"continued", "comment">>,
     <<"continued", "print_a">>}

AgentInputs(method, df) ==
    CASE method = "critique" ->
            {AgentInput(CodeArtifact(p),
                        execute(p, df, CodeArtifact(p).manifest_schema).res,
                        <<>>, <<>>, 0) : p \in CritiquePrograms}
      [] method = "write_code" ->
            {AgentInput(NoCode, NoResult, plots, cols, 0) :
                plots \in {<<"histogram">>, <<"boxplot">>, <<"bar">>, <<>>},
                cols \in {<<>>, <<"price">>}}
      [] OTHER -> {AgentInput(NoCode, NoResult, <<>>, <<>>, n) : n \in 0..2}

NoAgentResult == AgentResult("", "none", {}, NoValue)

AInit ==
    /\ a_pc = "ready"
    /\ a_method \in AgentMethods
    /\ a_llm \in LlmStates
    /\ a_df \in DataFrames
    /\ a_input \in AgentInputs(a_method, a_df)
    /\ a_out = NoAgentResult
    /\ a_reexec = NoOutcome

AIdle ==
    /\ a_pc = "idle"
    /\ a_method = "plan"
    /\ a_llm = "none"
    /\ a_df = DfSmall
    /\ a_input = AgentInput(NoCode, NoResult, <<>>, <<>>, 0)
    /\ a_out = NoAgentResult
    /\ a_reexec = NoOutcome

CallAgent ==
    /\ a_pc = "ready"
    /\ a_out' = AgentCall(a_method, a_llm, a_input)
    /\ a_pc' = "done"
    /\ UNCHANGED <<a_method, a_llm, a_input, a_df, a_reexec>>
    /\ UNCHANGED <<x_vars, o_vars, l_vars, s_vars, h_vars>>

\* run_eda after a critique: if status is "fix" and fix_patch is not empty,
\* execute code_output["python"] + "\n" + fix_patch.
ApplyFix ==
    /\ a_pc = "done"
    /\ a_method = "critique"
    /\ a_out.raised = ""
    /\ a_out.value.status = "fix"
    /\ a_out.value.fix_patch # <<>>
    /\ a_reexec' = execute(a_input.code_output.python \o a_out.value.fix_patch, a_df,
                           a_input.code_output.manifest_schema)
    /\ a_pc' = "applied"
    /\ UNCHANGED <<a_method, a_llm, a_input, a_df, a_out>>
    /\ UNCHANGED <<x_vars, o_vars, l_vars, s_vars, h_vars>>

(***************************************************************************)
(* Orchestration: EDAOrchestrator.run_eda (main.py, front = "cli") and the *)
(* execution section of the Streamlit page (front = "ui").                 *)
(***************************************************************************)
max_retries == 3

\* retry_count before its first assignment in the function body.
Unbound == -1

\* The dataset of the run.
RunDf == DfSkewed

\* Code the coder may return for an item: code that succeeds, code that
\* succeeds with linter warnings, code that raises after printing, code that
\* does not compile, code the gate rejects, code that exits the interpreter,
\* code that does not compile and would exit the interpreter once it does.
CoderPrograms ==
    {<<"print_a", "bind_good">>, <<"bind_bare">>, <<"print_a", "raise_value">>,
     <<"indented">>, <<"import_socket">>, <<"raise_exit">>,
     <<"indented", "raise_exit">>}


\* Critiques the critic may return: {status, fix_patch}.
FixPatches == {<<>>, <<"comment">>, <<"print_a">>}
Critiques == [status : {"ok", "fix"}, fix_patch : FixPatches]
NoCritique == [status |-> "", fix_patch |-> <<>>]

\* The indentation test with a marker that no error text holds.
MutIndentationFaultTypo(error) ==
    \E i \in 1..Len(error) : Contains(error[i], "IndentError")

\* "IndentationError" in error_msg or "unexpected indent" in error_msg
IndentationFault(error) ==
    \E i \in 1..Len(error) :
        Contains(error[i], "IndentationError") \/ Contains(error[i], "unexpected indent")

\* autopep8.fix_code when it repairs the indentation.
Dedent(code) ==
    [i \in 1..Len(code) |-> IF code[i] = "indented" THEN "assign" ELSE code[i]]

Event(op, info) == [op |-> op, info |-> info]

\* How an execute call ended, for the item's event log.
ExecInfo(out) ==
    IF ~out.returned THEN "raised"
    ELSE IF out.res.exec_ok THEN "ok"
    ELSE IF ~out.engine THEN "rejected"
    ELSE "fault"

OInit ==
    /\ front \in {"cli", "ui"}
    /\ pc = "start"
    /\ n_items = 0
    /\ item = 0
    /\ code_output = NoCode
    /\ exec_result = NoResult
    /\ critique_result = NoCritique
    /\ retry_count = Unbound
    /\ success = FALSE
    /\ highlights = <<>>
    /\ events = <<>>
    /\ run_result = "none"
    /\ exec_results = <<>>
    /\ db_rows = <<>>

OIdle ==
    /\ front = "ui"
    /\ pc = "idle"
    /\ n_items = 0
    /\ item = 0
    /\ code_output = NoCode
    /\ exec_result = NoResult
    /\ critique_result = NoCritique
    /\ retry_count = Unbound
    /\ success = FALSE
    /\ highlights = <<>>
    /\ events = <<>>
    /\ run_result = "none"
    /\ exec_results = <<>>
    /\ db_rows = <<>>

\* A fault that is no Exception leaves through both front ends' handlers.
Raised ==
    /\ pc' = "done"
    /\ run_result' = "raised"

\* Session start, profiling, planning and approval.  Either a step of the
\* set-up raises an Exception (the planner's prompt builder does, see
\* UnboundNames) and the handler ends the run as failed, or a plan of n
\* items is approved and the item loop starts.
StartRun ==
    /\ pc = "start"
    /\ \/ /\ pc' = "done"
          /\ run_result' = "failed"
          /\ UNCHANGED <<n_items, item>>
       \/ \E n \in 0..MaxItems :
            /\ n_items' = n
            /\ item' = 1
            /\ pc' = IF n = 0 THEN "report" ELSE "write_code"
            /\ run_result' = run_result
    /\ UNCHANGED <<exec_results, db_rows>>
    /\ UNCHANGED <<front, code_output, exec_result, critique_result, retry_count,
                   success, highlights, events>>
    /\ UNCHANGED <<x_vars, l_vars, a_vars, s_vars, h_vars>>

\* coder.write_code(item, ...) at the top of the item.
WriteCode ==
    /\ pc = "write_code"
    /\ \E p \in CoderPrograms : code_output' = CodeArtifact(p)
    /\ events' = <<Event("write_code", "")>>
    /\ pc' = "execute"
    /\ UNCHANGED <<exec_results, db_rows>>
    /\ UNCHANGED <<front, n_items, item, exec_result, critique_result, retry_count,
                   success, highlights, run_result>>
    /\ UNCHANGED <<x_vars, l_vars, a_vars, s_vars, h_vars>>

\* The item's first execute call.  The ui then initialises the retry loop;
\* the cli goes on to the critic.
InitialExecute ==
    /\ pc = "execute"
    /\ LET out == execute(code_output.python, RunDf, code_output.manifest_schema)
       IN /\ events' = Append(events, Event("execute", ExecInfo(out)))
          /\ IF ~out.returned
             THEN /\ Raised
                  /\ UNCHANGED <<exec_result, retry_count, success, critique_result>>
             ELSE /\ exec_result' = out.res
                  /\ run_result' = run_result
                  /\ IF front = "ui"
                     THEN /\ retry_count' = 0
                          /\ success' = FALSE
                          /\ critique_result' = NoCritique
                          /\ pc' = "loop"
                     ELSE /\ pc' = "critique"
                          /\ UNCHANGED <<retry_count, success, critique_result>>
    /\ UNCHANGED <<exec_results, db_rows>>
    /\ UNCHANGED <<front, n_items, item, code_output, highlights>>
    /\ UNCHANGED <<x_vars, l_vars, a_vars, s_vars, h_vars>>

\* cli only: critic.critique(code_output, exec_result) right after the first
\* execution, whatever its outcome.
CliCritique ==
    /\ pc = "critique"
    /\ \E c \in Critiques :
        /\ critique_result' = c
        /\ events' = Append(events, Event("critique", c.status))
        /\ pc' = IF c.status = "fix" /\ c.fix_patch # <<>> THEN "apply_fix" ELSE "store"
    /\ UNCHANGED <<exec_results, db_rows>>
    /\ UNCHANGED <<front, n_items, item, code_output, exec_result, retry_count,
                   success, highlights, run_result>>
    /\ UNCHANGED <<x_vars, l_vars, a_vars, s_vars, h_vars>>

\* cli only: execute code_output["python"] + "\n" + fix_patch.
CliApplyFix ==
    /\ pc = "apply_fix"
    /\ LET out == execute(code_output.python \o critique_result.fix_patch, RunDf,
                          code_output.manifest_schema)
       IN /\ events' = Append(events, Event("execute", ExecInfo(out)))
          /\ IF ~out.returned
             THEN Raised /\ UNCHANGED exec_result
             ELSE /\ exec_result' = out.res
                  /\ pc' = "store"
                  /\ run_result' = run_result
    /\ UNCHANGED <<exec_results, db_rows>>
    /\ UNCHANGED <<front, n_items, item, code_output, critique_result, retry_count,
                   success, highlights>>
    /\ UNCHANGED <<x_vars, l_vars, a_vars, s_vars, h_vars>>

\* exec_summary, the entry run_eda appends to execution_log["exec_results"].
ExecSummary(it, code, res, crit) ==
    [item |-> it, code_output |-> code, exec_result |-> res, critique_result |-> crit]

\* A row of table execution_results (the columns the claims are about).
Row(it, retries, ok) == [item_id |-> it, retry_count |-> retries, success |-> ok]

\* cli only: the item's summary is logged and saved to the history database
\* with retry_count=retry_count.  Reading the local before its first
\* assignment raises UnboundLocalError, which the handler of run_eda turns
\* into a failed run; otherwise the retry loop is initialised.
CliStoreResult ==
    /\ pc = "store"
    /\ exec_results' = Append(exec_results,
                              ExecSummary(item, code_output, exec_result, critique_result))
    /\ events' = Append(events, Event("save_execution_result", ""))
    /\ IF retry_count = Unbound
       THEN /\ pc' = "done"
            /\ run_result' = "failed"
            /\ UNCHANGED <<retry_count, success, db_rows>>
       ELSE /\ db_rows' = Append(db_rows, Row(item, retry_count, exec_result.exec_ok))
            /\ retry_count' = 0
            /\ success' = FALSE
            /\ pc' = "loop"
            /\ run_result' = run_result
    /\ UNCHANGED <<front, n_items, item, code_output, exec_result, critique_result,
                   highlights>>
    /\ UNCHANGED <<x_vars, l_vars, a_vars, s_vars, h_vars>>

\* The loop condition with the budget one short.
MutLoopConditionShort == retry_count < max_retries - 1 /\ ~success

\* The condition of the retry loop.
LoopCondition == retry_count < max_retries /\ ~success

Highlight(it, res) == [item |-> it, exec_result |-> res]

\* An iteration that finds exec_ok set: success; the cli appends the
\* highlight here.  The loop condition then fails.
IterSuccess ==
    /\ pc = "loop"
    /\ LoopCondition
    /\ exec_result.exec_ok
    /\ success' = TRUE
    /\ highlights' = IF front = "cli"
                     THEN Append(highlights, Highlight(item, exec_result))
                     ELSE highlights
    /\ pc' = "after_loop"
    /\ UNCHANGED <<exec_results, db_rows>>
    /\ UNCHANGED <<front, n_items, item, code_output, exec_result, critique_result,
                   retry_count, events, run_result>>
    /\ UNCHANGED <<x_vars, l_vars, a_vars, s_vars, h_vars>>

\* An iteration that finds an indentation fault: import autopep8, fix_code,
\* execute the fixed code, retry_count += 1, continue.  When the import or
\* fix_code raises, the except clause falls through to the critic.
IterReformat ==
    /\ pc = "loop"
    /\ LoopCondition
    /\ ~exec_result.exec_ok
    /\ IndentationFault(exec_result.error)
    /\ \E how \in {"fixed", "unchanged", "unavailable", "raises"} :
        IF how \in {"unavailable", "raises"}
        THEN /\ events' = Append(events, Event("reformat", how))
             /\ pc' = "critic"
             /\ UNCHANGED <<exec_result, retry_count, run_result>>
        ELSE LET fixed_code == IF how = "fixed" THEN Dedent(code_output.python)
                               ELSE code_output.python
                 out == execute(fixed_code, RunDf, code_output.manifest_schema)
             IN /\ events' = events \o <<Event("reformat", how),
                                         Event("execute", ExecInfo(out))>>
                /\ IF ~out.returned
                   THEN Raised /\ UNCHANGED <<exec_result, retry_count>>
                   ELSE /\ exec_result' = out.res
                        /\ retry_count' = retry_count + 1
                        /\ pc' = "loop"
                        /\ run_result' = run_result
    /\ UNCHANGED <<exec_results, db_rows>>
    /\ UNCHANGED <<front, n_items, item, code_output, critique_result, success,
                   highlights>>
    /\ UNCHANGED <<x_vars, l_vars, a_vars, s_vars, h_vars>>

\* The critic step with a gate rejection treated as final: the loop is left
\* without consulting the critic.
MutIterCriticRejectionFinal ==
    /\ \/ pc = "critic"
       \/ /\ pc = "loop"
          /\ LoopCondition
          /\ ~exec_result.exec_ok
          /\ ~IndentationFault(exec_result.error)
    /\ IF exec_result = RejectedResult
       THEN /\ pc' = "after_loop"
            /\ UNCHANGED <<critique_result, events>>
       ELSE \E c \in Critiques :
            /\ critique_result' = c
            /\ events' = Append(events, Event("critique", c.status))
            /\ pc' = IF c.status = "fix" THEN "regenerate" ELSE "after_loop"
    /\ UNCHANGED <<exec_results, db_rows>>
    /\ UNCHANGED <<front, n_items, item, code_output, exec_result, retry_count,
                   success, highlights, run_result>>
    /\ UNCHANGED <<x_vars, l_vars, a_vars, s_vars, h_vars>>

\* critic.critique(code_output, exec_result) in the loop: for a failure that
\* is no indentation fault, or after the reformatter failed.  A status other
\* than "fix" breaks out of the loop.
IterCritic ==
    /\ \/ pc = "critic"
       \/ /\ pc = "loop"
          /\ LoopCondition
          /\ ~exec_result.exec_ok
          /\ ~IndentationFault(exec_result.error)
    /\ \E c \in Critiques :
        /\ critique_result' = c
        /\ events' = Append(events, Event("critique", c.status))
        /\ pc' = IF c.status = "fix" THEN "regenerate" ELSE "after_loop"
    /\ UNCHANGED <<exec_results, db_rows>>
    /\ UNCHANGED <<front, n_items, item, code_output, exec_result, retry_count,
                   success, highlights, run_result>>
    /\ UNCHANGED <<x_vars, l_vars, a_vars, s_vars, h_vars>>

\* The regeneration path without its retry_count += 1.
MutRegenerateNoCount == retry_count

\* retry_count += 1 after the regenerated code was executed.
RetryIncrement == retry_count + 1

\* After a "fix": coder.write_code with the critic's notes, execute the new
\* code, retry_count += 1.
IterRegenerate ==
    /\ pc = "regenerate"
    /\ \E p \in CoderPrograms :
        LET out == execute(p, RunDf, CodeArtifact(p).manifest_schema)
        IN /\ code_output' = CodeArtifact(p)
           /\ events' = events \o <<Event("write_code", ""),
                                    Event("execute", ExecInfo(out))>>
           /\ IF ~out.returned
              THEN Raised /\ UNCHANGED <<exec_result, retry_count>>
              ELSE /\ exec_result' = out.res
                   /\ retry_count' = RetryIncrement
                   /\ pc' = "loop"
                   /\ run_result' = run_result
    /\ UNCHANGED <<exec_results, db_rows>>
    /\ UNCHANGED <<front, n_items, item, critique_result, success, highlights>>
    /\ UNCHANGED <<x_vars, l_vars, a_vars, s_vars, h_vars>>

\* The loop condition fails with the budget used up.
LoopExit ==
    /\ pc = "loop"
    /\ ~LoopCondition
    /\ pc' = "after_loop"
    /\ UNCHANGED <<exec_results, db_rows>>
    /\ UNCHANGED <<front, n_items, item, code_output, exec_result, critique_result,
                   retry_count, success, highlights, events, run_result>>
    /\ UNCHANGED <<x_vars, l_vars, a_vars, s_vars, h_vars>>

\* Promotion without the test of success and exec_ok.
MutPromotesAlways == front = "ui"

\* if success and exec_result and exec_result.get("exec_ok"), in the ui.
Promotes == front = "ui" /\ success /\ exec_result.exec_ok

\* After the loop: the ui promotes the item to a highlight when success and
\* exec_ok, and saves the item's row with its retry_count and success; then
\* the next item, or the report.
FinishItem ==
    /\ pc = "after_loop"
    /\ highlights' = IF Promotes
                     THEN Append(highlights, Highlight(item, exec_result))
                     ELSE highlights
    /\ db_rows' = IF front = "ui"
                  THEN Append(db_rows, Row(item, retry_count, success))
                  ELSE db_rows
    /\ item' = item + 1
    /\ pc' = IF item < n_items THEN "write_code" ELSE "report"
    /\ UNCHANGED exec_results
    /\ UNCHANGED <<front, n_items, code_output, exec_result, critique_result,
                   retry_count, success, events, run_result>>
    /\ UNCHANGED <<x_vars, l_vars, a_vars, s_vars, h_vars>>

\* reporter.report(highlights, profile); the run returns successfully.
Report ==
    /\ pc = "report"
    /\ pc' = "done"
    /\ run_result' = "ok"
    /\ UNCHANGED <<exec_results, db_rows>>
    /\ UNCHANGED <<front, n_items, item, code_output, exec_result, critique_result,
                   retry_count, success, highlights, events>>
    /\ UNCHANGED <<x_vars, l_vars, a_vars, s_vars, h_vars>>

(***************************************************************************)
(* Standard streams: execute replaces the process-wide sys.stdout and      *)
(* sys.stderr by capture buffers while the code runs.                      *)
(***************************************************************************)
MaxCalls == 2      \* execute calls per run of the streams harness

\* A stream object: the console's, one the caller of execute installed
\* itself, or the StringIO that call number "call" of execute created.
Stream(owner, kind, call) == [owner |-> owner, kind |-> kind, call |-> call]

\* sys.stdout and sys.stderr.
Streams(owner, call) ==
    [stdout |-> Stream(owner, "out", call), stderr |-> Stream(owner, "err", call)]

\* The finally clause skipped when the fault leaves execute.
MutRestoreOnReturnOnly(old, installed, out) ==
    IF out.returned THEN old ELSE installed

\* finally: sys.stdout = old_stdout; sys.stderr = old_stderr.  The clause
\* runs when execute returns from the try block, from the except clause,
\* and when a fault leaves execute.
FinallyRestore(old, installed, out) == old

\* The writes of the executed code: what it prints goes to the object
\* sys.stdout refers to while it runs, what it writes to standard error to
\* sys.stderr.
CodeWrites(run, installed, call) ==
    {[by |-> call, target |-> installed.stdout] : i \in 1..Len(run.out)}
    \cup {[by |-> call, target |-> installed.stderr] : i \in 1..Len(run.err)}

\* The streams side of execute: the gate rejects before anything is
\* replaced; otherwise old_stdout and old_stderr are read from sys, two
\* fresh buffers are installed, the code runs, and the finally clause acts.
ExecuteStreams(code, df, manifest_schema, sys, call) ==
    IF ~is_code_safe(CodeText(code))
    THEN [sys |-> sys, writes |-> {}]
    ELSE LET old == sys
             installed == Streams("capture", call)
         IN [sys |-> FinallyRestore(old, installed, execute(code, df, manifest_schema)),
             writes |-> CodeWrites(RunCode(code), installed, call)]

\* Code for each path through execute: success with output, gate
\* rejection, fault after output, fault of the evidence generator, a fault
\* that leaves execute, output on standard error.
StreamPrograms ==
    {<<"print_a", "bind_good">>, <<"import_socket">>, <<"print_a", "raise_value">>,
     <<"print_a", "bind_none">>, <<"print_a", "raise_exit">>, <<"warn_careful">>}

SInit ==
    /\ s_pc = "run"
    /\ s_init \in {Streams("console", 0), Streams("outer", 0)}
    /\ s_sys = s_init
    /\ s_calls = <<>>
    /\ s_writes = {}

SIdle ==
    /\ s_pc = "idle"
    /\ s_init = Streams("console", 0)
    /\ s_sys = s_init
    /\ s_calls = <<>>
    /\ s_writes = {}

\* One call of execute, whole.
StreamExecute ==
    /\ s_pc = "run"
    /\ Len(s_calls) < MaxCalls
    /\ \E p \in StreamPrograms :
        LET call == Len(s_calls) + 1
            st == ExecuteStreams(p, RunDf, ManifestGood, s_sys, call)
        IN /\ s_sys' = st.sys
           /\ s_writes' = s_writes \cup st.writes
           /\ s_calls' = Append(s_calls, ExecInfo(execute(p, RunDf, ManifestGood)))
    /\ UNCHANGED <<s_pc, s_init>>
    /\ UNCHANGED <<x_vars, o_vars, l_vars, a_vars, h_vars>>

\* The caller of execute prints between two calls (by = 0), after the
\* calls made so far.
CallerPrint ==
    /\ s_pc = "run"
    /\ s_writes' = s_writes \cup {[by |-> 0, target |-> s_sys.stdout]}
    /\ UNCHANGED <<s_pc, s_init, s_sys, s_calls>>
    /\ UNCHANGED <<x_vars, o_vars, l_vars, a_vars, h_vars>>

(***************************************************************************)
(* History database: HistoryDB (runtime/history_db.py).                    *)
(***************************************************************************)
MaxSessions == 2   \* rows of table sessions
MaxPlans == 2      \* rows of table plan_versions
MaxResults == 2    \* rows of table execution_results

\* SQL NULL; booleans are stored as 1 and 0.
NULL == "NULL"
SqlBool(b) == IF b THEN "1" ELSE "0"

\* The limit argument of get_session_history (10 when omitted).
Limits == {1, 10}

\* A row of table sessions; details stands for the columns profile,
\* report_path, artifacts_dir and error, which complete_session sets
\* together.
SessionRow(id, ok, details) == [session_id |-> id, success |-> ok, details |-> details]

\* A call made on the database.
HCall(op, id, ok) == [op |-> op, session_id |-> id, success |-> ok]

\* start_session: INSERT INTO sessions (timestamp, csv_path, user_goal,
\* max_items); session_id is INTEGER PRIMARY KEY AUTOINCREMENT, the other
\* columns stay NULL.  The id returned is cursor.lastrowid.
start_session(sessions) ==
    Append(sessions, SessionRow(Len(sessions) + 1, NULL, NULL))

\* save_plan_version: INSERT INTO plan_versions.
save_plan_version(plans, id) ==
    Append(plans, [version_id |-> Len(plans) + 1, session_id |-> id])

\* save_execution_result: INSERT INTO execution_results.
save_execution_result(results, id, ok) ==
    Append(results, [result_id |-> Len(results) + 1, session_id |-> id,
                     success |-> SqlBool(ok)])

\* The UPDATE of complete_session without its WHERE clause.
MutCompleteEverySession(sessions, id, ok, details) ==
    [i \in 1..Len(sessions) |-> SessionRow(sessions[i].session_id, SqlBool(ok), details)]

\* complete_session: UPDATE sessions SET success, profile, report_path,
\* artifacts_dir, error WHERE session_id = ?
complete_session(sessions, id, ok, details) ==
    [i \in 1..Len(sessions) |->
        IF sessions[i].session_id = id
        THEN SessionRow(id, SqlBool(ok), details)
        ELSE sessions[i]]

\* The rows of sessions s LEFT JOIN plan_versions p LEFT JOIN
\* execution_results e for one session: every pair of a plan version and an
\* execution result of the session, a side without rows giving NULL
\* (version 0, result 0).
JoinedRows(id, plans, results) ==
    LET ps == {i \in 1..Len(plans) : plans[i].session_id = id}
        es == {i \in 1..Len(results) : results[i].session_id = id}
    IN {[version_id |-> pi, result_id |-> ei,
         success |-> IF ei = 0 THEN NULL ELSE results[ei].success] :
          pi \in (IF ps = {} THEN {0} ELSE ps), ei \in (IF es = {} THEN {0} ELSE es)}

\* The aggregates of one group: COUNT(DISTINCT p.version_id),
\* COUNT(DISTINCT e.result_id), SUM(CASE WHEN e.success = 1 THEN 1 ELSE 0 END).
HistoryRow(session, plans, results) ==
    LET rows == JoinedRows(session.session_id, plans, results)
    IN [session_id |-> session.session_id,
        success |-> session.success,
        plan_versions |-> Cardinality({r.version_id : r \in rows} \ {0}),
        executions |-> Cardinality({r.result_id : r \in rows} \ {0}),
        successful_executions |-> Cardinality({r \in rows : r.success = "1"})]

\* get_session_history(limit): GROUP BY s.session_id ORDER BY s.timestamp
\* DESC LIMIT ?  - the sessions from the last started back, at most limit.
get_session_history(sessions, plans, results, limit) ==
    LET n == Len(sessions)
        k == IF limit < n THEN limit ELSE n
    IN [j \in 1..k |-> HistoryRow(sessions[n + 1 - j], plans, results)]

\* h_history holds the rows the last call returned, <<>> when the last call
\* was not get_session_history.
HInit ==
    /\ h_pc = "run"
    /\ h_sessions = <<>>
    /\ h_plans = <<>>
    /\ h_results = <<>>
    /\ h_returned = <<>>
    /\ h_last = HCall("none", 0, NULL)
    /\ h_history = <<>>

HIdle ==
    /\ h_pc = "idle"
    /\ h_sessions = <<>>
    /\ h_plans = <<>>
    /\ h_results = <<>>
    /\ h_returned = <<>>
    /\ h_last = HCall("none", 0, NULL)
    /\ h_history = <<>>

\* The session ids a caller may pass to complete_session: the ids returned
\* so far and one that no session has.
SessionIds == 1..MaxSessions + 1

\* The ids returned by start_session, which run_eda and the UI pass on to
\* save_plan_version and save_execution_result.
ReturnedIds == {h_returned[i] : i \in 1..Len(h_returned)}

StartSession ==
    /\ h_pc = "run"
    /\ Len(h_sessions) < MaxSessions
    /\ h_sessions' = start_session(h_sessions)
    /\ h_returned' = Append(h_returned, Len(h_sessions'))
    /\ h_last' = HCall("start_session", Len(h_sessions'), NULL)
    /\ h_history' = <<>>
    /\ UNCHANGED <<h_pc, h_plans, h_results>>
    /\ UNCHANGED <<x_vars, o_vars, l_vars, a_vars, s_vars>>

SavePlanVersion ==
    /\ h_pc = "run"
    /\ Len(h_plans) < MaxPlans
    /\ \E id \in ReturnedIds :
        /\ h_plans' = save_plan_version(h_plans, id)
        /\ h_last' = HCall("save_plan_version", id, NULL)
    /\ h_history' = <<>>
    /\ UNCHANGED <<h_pc, h_sessions, h_results, h_returned>>
    /\ UNCHANGED <<x_vars, o_vars, l_vars, a_vars, s_vars>>

SaveExecutionResult ==
    /\ h_pc = "run"
    /\ Len(h_results) < MaxResults
    /\ \E id \in ReturnedIds, ok \in BOOLEAN :
        /\ h_results' = save_execution_result(h_results, id, ok)
        /\ h_last' = HCall("save_execution_result", id, SqlBool(ok))
    /\ h_history' = <<>>
    /\ UNCHANGED <<h_pc, h_sessions, h_plans, h_returned>>
    /\ UNCHANGED <<x_vars, o_vars, l_vars, a_vars, s_vars>>

CompleteSession ==
    /\ h_pc = "run"
    /\ \E id \in SessionIds, ok \in BOOLEAN :
        /\ h_sessions' = complete_session(h_sessions, id, ok,
                                           IF ok THEN "report" ELSE "error")
        /\ h_last' = HCall("complete_session", id, SqlBool(ok))
    /\ h_history' = <<>>
    /\ UNCHANGED <<h_pc, h_plans, h_results, h_returned>>
    /\ UNCHANGED <<x_vars, o_vars, l_vars, a_vars, s_vars>>

GetSessionHistory ==
    /\ h_pc = "run"
    /\ \E limit \in Limits :
        /\ h_history' = get_session_history(h_sessions, h_plans, h_results, limit)
        /\ h_last' = HCall("get_session_history", limit, NULL)
    /\ UNCHANGED <<h_pc, h_sessions, h_plans, h_results, h_returned>>
    /\ UNCHANGED <<x_vars, o_vars, l_vars, a_vars, s_vars>>

(***************************************************************************)
(* Specifications.                                                         *)
(***************************************************************************)
\* Runs of the orchestration.
Init == OInit /\ XIdle /\ LIdle /\ AIdle /\ SIdle /\ HIdle

Next ==
    \/ StartRun
    \/ WriteCode
    \/ InitialExecute
    \/ CliCritique
    \/ CliApplyFix
    \/ CliStoreResult
    \/ IterSuccess
    \/ IterReformat
    \/ IterCritic
    \/ IterRegenerate
    \/ LoopExit
    \/ FinishItem
    \/ Report

Spec == Init /\ [][Next]_vars

\* Calls of execute.
InitExec == XInit /\ OIdle /\ LIdle /\ AIdle /\ SIdle /\ HIdle

NextExec == ExecuteCall

SpecExec == InitExec /\ [][NextExec]_vars

\* Calls of _generate_evidence and _run_linter.
InitLint == LInit /\ XIdle /\ OIdle /\ AIdle /\ SIdle /\ HIdle

NextLint ==
    \/ EvidenceCall
    \/ LinterCall

SpecLint == InitLint /\ [][NextLint]_vars

\* Calls of the agent boundaries.
InitAgents == AInit /\ XIdle /\ OIdle /\ LIdle /\ SIdle /\ HIdle

NextAgents ==
    \/ CallAgent
    \/ ApplyFix

SpecAgents == InitAgents /\ [][NextAgents]_vars

\* Calls of execute seen from the process's standard streams.
InitStreams == SInit /\ XIdle /\ OIdle /\ LIdle /\ AIdle /\ HIdle

NextStreams ==
    \/ StreamExecute
    \/ CallerPrint

SpecStreams == InitStreams /\ [][NextStreams]_vars

\* Calls on the history database.
InitHistory == HInit /\ XIdle /\ OIdle /\ LIdle /\ AIdle /\ SIdle

NextHistory ==
    \/ StartSession
    \/ SavePlanVersion
    \/ SaveExecutionResult
    \/ CompleteSession
    \/ GetSessionHistory

SpecHistory == InitHistory /\ [][NextHistory]_vars

(***************************************************************************)
(* Claims about execute (specification SpecExec).                          *)
(***************************************************************************)
\* The harness has made its call and the call returned a result.
XReturned == x_pc = "done" /\ x_out.returned

\* The flags are exactly one error-level flag with the given code.
OneErrorFlag(flags, code) ==
    Len(flags) = 1 /\ flags[1].level = "error" /\ flags[1].code = code

\* C1: whenever the gate rejects the code, execute returns exec_ok = false,
\* empty stdout, a non-empty error, manifest {} and evidence {}, exactly one
\* error-level FORBIDDEN_CODE flag, and neither exec nor the evidence
\* generator nor the linter was run.
C1_GateRejection ==
    (x_pc = "done" /\ ~is_code_safe(CodeText(x_code))) =>
        /\ x_out.returned
        /\ x_out.res.exec_ok = FALSE
        /\ x_out.res.stdout = <<>>
        /\ x_out.res.error # <<>>
        /\ x_out.res.manifest = EmptyDict
        /\ x_out.res.evidence = EmptyEvidence
        /\ OneErrorFlag(x_out.res.linter_flags, "FORBIDDEN_CODE")
        /\ ~x_out.engine /\ ~x_out.evidenced /\ ~x_out.linted
        /\ x_out.imported = {}

\* A rejected code string that would have printed, bound a manifest and
\* imported a module had it been run.
C1_Witness ==
    /\ x_pc = "done"
    /\ x_code = <<"print_a", "bind_good", "import_socket">>
    /\ x_out.res = RejectedResult

\* C2: every code string that holds an import of a denylisted module, in
\* any import syntax, is rejected by the gate and never run.
C2_DenylistedImportRejected ==
    (x_pc = "done" /\ ImportedModules(x_code) \cap forbidden_modules # {}) =>
        /\ ~is_code_safe(CodeText(x_code))
        /\ ~x_out.engine

\* C3: execute never lets a fault of the executed code propagate: it
\* returns exec_ok = false with an error made of the fault kind, its message
\* and a stack trace.
C3_NoFaultPropagates ==
    (x_pc = "done" /\ x_out.engine /\ RunCode(x_code).fault # "") =>
        /\ x_out.returned
        /\ x_out.res.exec_ok = FALSE
        /\ x_out.res.error = <<RunCode(x_code).fault, ": ",
                               FaultMessage(RunCode(x_code).fault), NL, TracebackText>>

\* Index of the first statement that raises (Len + 1 when none does).
FirstRaise(code) ==
    LET raising == {i \in 1..Len(code) : StmtEffect(code[i]).k = "raise"}
    IN IF raising = {} THEN Len(code) + 1
       ELSE CHOOSE i \in raising : \A j \in raising : i <= j

\* What the code printed before its fault: nothing when it did not compile,
\* else the arguments of the print statements before the first raise.
RECURSIVE PrintedIn(_)
PrintedIn(code) ==
    IF code = <<>> THEN <<>>
    ELSE (IF StmtEffect(code[1]).k = "out" THEN <<StmtEffect(code[1]).arg>> ELSE <<>>)
         \o PrintedIn(Tail(code))

PrintedBeforeFault(code) ==
    IF \E i \in 1..Len(code) : StmtEffect(code[i]).k = "syntax" THEN <<>>
    ELSE PrintedIn(SubSeq(code, 1, FirstRaise(code) - 1))

\* The code was run and raised.
Faulted(code) ==
    \/ \E i \in 1..Len(code) : StmtEffect(code[i]).k = "syntax"
    \/ FirstRaise(code) <= Len(code)

\* C4: when gate-approved code raises part-way, the result execute returns
\* has exec_ok = false, stdout exactly what was printed before the fault,
\* manifest {} and evidence {} even if a manifest was bound, and exactly
\* one error-level EXECUTION_ERROR flag.
C4_FaultResult ==
    (XReturned /\ x_out.engine /\ Faulted(x_code)) =>
        /\ x_out.res.exec_ok = FALSE
        /\ x_out.res.stdout = PrintedBeforeFault(x_code)
        /\ x_out.res.manifest = EmptyDict
        /\ x_out.res.evidence = EmptyEvidence
        /\ OneErrorFlag(x_out.res.linter_flags, "EXECUTION_ERROR")

\* Code that prints, binds a manifest with a chart and then raises.
C4_Witness ==
    /\ XReturned
    /\ x_code = <<"print_a", "bind_bare", "raise_value">>
    /\ x_out.engine
    /\ x_out.res.stdout = <<"a">>
    /\ x_out.res.manifest = EmptyDict

\* The code binds the name manifest somewhere.
Binds(code) == \E i \in 1..Len(code) : StmtEffect(code[i]).k = "bind"

\* Evidence of every shape the linter is given: any set of columns may have
\* high skew or high cardinality.
LinterEvidences ==
    {generate_evidence(df, m) : df \in DataFrames, m \in {EmptyDict, ManifestGood}}
    \cup {EmptyEvidence}

\* C5: gate-approved code that finishes without binding manifest yields
\* exec_ok = true, manifest {} and no linter flags; and the linter returns
\* the empty sequence for every manifest without a charts key, whatever the
\* evidence.
C5_NoManifestNoFlags ==
    /\ (XReturned /\ x_out.engine /\ ~Faulted(x_code) /\ ~Binds(x_code)) =>
          /\ x_out.res.exec_ok
          /\ x_out.res.manifest = EmptyDict
          /\ x_out.res.linter_flags = <<>>
    /\ (XReturned /\ x_out.res.exec_ok /\ ~x_out.res.manifest.hasCharts) =>
          \A ev \in LinterEvidences : run_linter(x_out.res.manifest, ev) = <<>>

\* Code that prints and binds nothing, run on the dataset whose columns
\* would trip the skew and cardinality rules.
C5_Witness ==
    /\ XReturned
    /\ x_code = <<"import_json", "print_a">>
    /\ x_df = DfSkewed
    /\ x_out.res.exec_ok
    /\ x_out.res.manifest = EmptyDict
    /\ x_out.res.linter_flags = <<>>

(***************************************************************************)
(* Claims about the orchestration (specification Spec).                    *)
(***************************************************************************)
\* Control is inside the retry loop of the current item.
InLoop == pc \in {"loop", "critic", "regenerate"}

\* The infos of the events of one kind, in order.
InfosOf(op) ==
    LET picked == SelectSeq(events, LAMBDA e : e.op = op)
    IN [i \in 1..Len(picked) |-> picked[i].info]

\* The step appended at least one event to the item's log, the first of
\* them of kind op.
Appends(op) ==
    /\ Len(events') > Len(events)
    /\ SubSeq(events', 1, Len(events)) = events
    /\ events'[Len(events) + 1].op = op

\* The item whose processing ended last, once control has left it.
ItemFinished == pc \in {"write_code", "report"} /\ item > 1

HighlightsOf(it) == SelectSeq(highlights, LAMBDA h : h.item = it)

\* C6, as a step: inside the loop retry_count moves by at most one; a step
\* that starts the next iteration has increased it by exactly one, a step
\* within an iteration leaves it alone, and every other step ends the loop.
C6_Step ==
    InLoop =>
        /\ pc' = "loop" => retry_count' = retry_count + 1
        /\ pc' \in {"critic", "regenerate"} => retry_count' = retry_count
        /\ pc' \notin {"loop", "critic", "regenerate"} =>
              /\ pc' \in {"after_loop", "done"}
              /\ retry_count' = retry_count

\* A bound on the steps the loop has left: three per unit of budget.
LoopVariant ==
    3 * (max_retries - retry_count)
    + (CASE pc = "loop" -> 2 [] pc = "critic" -> 1 [] OTHER -> 0)

\* C6, termination: a step that stays inside the loop decreases the
\* variant, which is never negative there.
C6_Decreases ==
    (InLoop /\ InLoop') => (LoopVariant' < LoopVariant /\ LoopVariant' >= 0)

\* C6, after the loop: the item was accepted, or the critic gave up, or the
\* budget is exhausted.
C6_Ended ==
    pc = "after_loop" =>
        \/ success /\ exec_result.exec_ok
        \/ ~success /\ critique_result.status = "ok"
        \/ ~success /\ retry_count = max_retries

\* C6: for every plan item the retry loop is bounded: retry_count never
\* exceeds max_retries = 3, every iteration ends the loop or increases
\* retry_count by one, so the loop terminates (its variant decreases), and
\* the item is then accepted or given up.
C6_RetryBounded ==
    /\ [](retry_count <= max_retries /\ C6_Ended)
    /\ [][C6_Step /\ C6_Decreases]_vars

\* The budget is used up: three retries, none of them examined as a success.
C6_Witness ==
    /\ pc = "after_loop"
    /\ retry_count = max_retries
    /\ ~success
    /\ InfosOf("critique") = <<"fix", "fix", "fix">>

\* A failed execution, as logged.
FailedInfo(info) == info \in {"fault", "rejected"}

\* The retry scenario: the first execution fails, the critic answers "fix",
\* the regenerated code fails, the critic answers "fix" again, and the code
\* regenerated then executes successfully; no reformatted code was executed.
RetryScenario ==
    /\ Len(InfosOf("execute")) = 3
    /\ FailedInfo(InfosOf("execute")[1])
    /\ FailedInfo(InfosOf("execute")[2])
    /\ InfosOf("execute")[3] = "ok"
    /\ InfosOf("critique") = <<"fix", "fix">>
    /\ \A i \in 1..Len(InfosOf("reformat")) :
          InfosOf("reformat")[i] \in {"unavailable", "raises"}

C8_RejectionTerminalForItem ==
    \A i \in 1..Len(events) :
        events[i] = Event("execute", "rejected") =>
            \A j \in (i + 1)..Len(events) :
                events[j].op \notin {"critique", "write_code", "execute"}

\* The orchestration is about to examine a Rejected result: the cli at its
\* critic call, either front end at the head of the loop with budget left.
RejectedPending ==
    /\ exec_result = RejectedResult
    /\ \/ pc = "critique"
       \/ pc = "loop" /\ LoopCondition

\* C8 as amended: a gate rejection is terminal for the attempt only.  The
\* Rejected result never becomes a highlight, and the orchestration treats
\* it as a failed execution: its next step for the item is the critic call
\* (after which a "fix" leads to new code being executed).
C8_RejectionTerminalForAttempt ==
    /\ [](\A i \in 1..Len(highlights) : highlights[i].exec_result # RejectedResult)
    /\ [][RejectedPending =>
            /\ Appends("critique")
            /\ Len(events') = Len(events) + 1
            /\ exec_result' = exec_result]_vars

\* An item whose first code was rejected, for which the critic was then
\* called and new code was written and executed.
C8_Witness ==
    /\ Len(events) >= 5
    /\ events[2] = Event("execute", "rejected")
    /\ \E j \in 3..Len(events) - 2 :
          /\ events[j] = Event("critique", "fix")
          /\ events[j + 1].op = "write_code"
          /\ events[j + 2].op = "execute"

\* The last result reports an IndentationError raised by the code.
IndentationErrorPending ==
    /\ pc = "loop"
    /\ LoopCondition
    /\ ~exec_result.exec_ok
    /\ exec_result.error # <<>>
    /\ exec_result.error[1] = "IndentationError"

\* The reformat attempt the step logged, if it logged one.
ReformatHow == events'[Len(events) + 1].info

\* C9 as stated: on an indentation fault there is exactly one reformat
\* attempt for the item, made before the critic is invoked, and it consumes
\* exactly one unit of the retry budget whatever its outcome, the
\* reformatter being unavailable or raising included.
C9_OneReformatOneUnit ==
    [][IndentationErrorPending =>
          /\ Appends("reformat")
          /\ InfosOf("reformat") = <<>>
          /\ retry_count' = retry_count + 1]_vars

\* C9 as amended, as a step: every iteration that finds an indentation fault
\* attempts a reformat before any critic call.  When the reformatter returns
\* code, that code is executed and the critic is not called in that
\* iteration; exactly one unit is consumed whether the execution succeeds or
\* fails, and none when the execute call lets a fault propagate, which ends
\* the run.  When the reformatter is unavailable or raises, no unit is
\* consumed and the critic is called next.
C9_ReformatStep ==
    /\ IndentationErrorPending =>
          /\ Appends("reformat")
          /\ ReformatHow \in {"fixed", "unchanged"} =>
                /\ Len(events') = Len(events) + 2
                /\ events'[Len(events) + 2].op = "execute"
                /\ IF events'[Len(events) + 2].info = "raised"
                   THEN retry_count' = retry_count /\ pc' = "done"
                   ELSE retry_count' = retry_count + 1 /\ pc' = "loop"
          /\ ReformatHow \in {"unavailable", "raises"} =>
                /\ Len(events') = Len(events) + 1
                /\ retry_count' = retry_count
                /\ exec_result' = exec_result
                /\ pc' = "critic"
    /\ pc = "critic" =>
          /\ Appends("critique")
          /\ retry_count' = retry_count

C9_ReformatPerIteration == [][C9_ReformatStep]_vars

\* An item whose reformatted code still had the indentation fault, so that
\* the next iteration attempted the reformat again, found the reformatter
\* unavailable and went on to the critic with one unit consumed.
C9_Witness ==
    /\ InfosOf("reformat") = <<"unchanged", "unavailable">>
    /\ Len(InfosOf("critique")) = 1
    /\ retry_count = 1
    /\ events[Len(events)].op = "critique"

\* C10, as a step: an item that ends without success adds no highlight and
\* does not fail the run; the next item, or the report, follows; and the
\* report ends the run successfully with the highlights there are.
C10_Step ==
    /\ pc = "after_loop" =>
          /\ run_result' = "none"
          /\ pc' = IF item < n_items THEN "write_code" ELSE "report"
          /\ item' = item + 1
          /\ ~success => highlights' = highlights
          /\ Len(highlights') <= Len(highlights) + 1
    /\ pc = "report" =>
          /\ pc' = "done"
          /\ run_result' = "ok"
          /\ highlights' = highlights

\* C10, in every state: at most one highlight per item, each holding a
\* result with exec_ok = true, and the highlight of the item that just ended
\* holds the last result obtained for it.
C10_Highlights ==
    /\ \A k \in 1..MaxItems + 1 : Len(HighlightsOf(k)) <= 1
    /\ \A i \in 1..Len(highlights) : highlights[i].exec_result.exec_ok
    /\ (ItemFinished /\ HighlightsOf(item - 1) # <<>>) =>
          /\ exec_result.exec_ok
          /\ HighlightsOf(item - 1)[1].exec_result = exec_result

\* C10: each plan item contributes at most one highlight, and only if the
\* last result obtained for it has exec_ok = true; an item that ends without
\* success contributes none, does not fail the run, and the next item and
\* the report follow.
C10_FailedItemOmitted ==
    /\ []C10_Highlights
    /\ [][C10_Step]_vars

\* A run of two items that ended with a report holding the second item's
\* highlight only: the first item ended without a success.
C10_Witness ==
    /\ pc = "done"
    /\ run_result = "ok"
    /\ n_items = 2
    /\ Len(highlights) = 1
    /\ highlights[1].item = 2

(***************************************************************************)
(* Further claims about execute (specification SpecExec).                  *)
(***************************************************************************)
ResultFields == {"exec_ok", "stdout", "error", "manifest", "evidence", "linter_flags"}

\* C13: every result execute returns has exactly the six fields; with
\* exec_ok = true the error is empty and every flag is of level "warn" (the
\* linter never emits level "error"); with exec_ok = false manifest and
\* evidence are {} and the flags are exactly one error-level flag of code
\* FORBIDDEN_CODE or EXECUTION_ERROR.
C13_ResultShape ==
    XReturned =>
        /\ DOMAIN x_out.res = ResultFields
        /\ x_out.res.exec_ok =>
              /\ x_out.res.error = <<>>
              /\ \A i \in 1..Len(x_out.res.linter_flags) :
                    x_out.res.linter_flags[i].level = "warn"
        /\ ~x_out.res.exec_ok =>
              /\ x_out.res.manifest = EmptyDict
              /\ x_out.res.evidence = EmptyEvidence
              /\ \/ OneErrorFlag(x_out.res.linter_flags, "FORBIDDEN_CODE")
                 \/ OneErrorFlag(x_out.res.linter_flags, "EXECUTION_ERROR")

\* A successful call whose linter emitted a flag for a column.
C13_Witness ==
    /\ XReturned
    /\ x_code = <<"bind_good">>
    /\ x_df = DfSkewed
    /\ x_out.res.exec_ok
    /\ x_out.res.linter_flags # <<>>
    /\ x_out.res.linter_flags[1].code = "HIGH_SKEW_NO_LOG"

\* C19: manifest_schema never influences the outcome: a call that differs
\* only in manifest_schema returns the same exec_ok, manifest, evidence and
\* linter_flags, and a produced manifest that differs from the schema is no
\* error.
C19_SchemaIgnored ==
    x_pc = "done" =>
        /\ \A schema \in ManifestSchemas :
              LET other == execute(x_code, x_df, schema)
              IN /\ other.returned = x_out.returned
                 /\ other.returned =>
                       /\ other.res.exec_ok = x_out.res.exec_ok
                       /\ other.res.manifest = x_out.res.manifest
                       /\ other.res.evidence = x_out.res.evidence
                       /\ other.res.linter_flags = x_out.res.linter_flags
        /\ (x_out.engine /\ RunCode(x_code).fault = ""
              /\ ~EvidenceRaises(RunCode(x_code).manifest)) =>
              x_out.returned /\ x_out.res.exec_ok

\* A successful call whose manifest differs from the schema it was given.
C19_Witness ==
    /\ XReturned
    /\ x_code = <<"bind_bare">>
    /\ x_schema = ManifestGood
    /\ x_out.res.exec_ok
    /\ x_out.res.manifest = ManifestBare

\* C20: for every call that passes the gate, what the code wrote to standard
\* output and what it wrote to standard error are both returned in the
\* result, on success and on failure.
C20_BothStreamsReturned ==
    (XReturned /\ x_out.engine) =>
        /\ x_out.res.stdout = RunCode(x_code).out
        /\ \A i \in 1..Len(RunCode(x_code).err) :
              \/ RunCode(x_code).err[i] \in Range(x_out.res.stdout)
              \/ RunCode(x_code).err[i] \in Range(x_out.res.error)

(***************************************************************************)
(* Claims about the linter and the evidence generator (SpecLint).          *)
(***************************************************************************)
LintDone == l_pc = "done"

\* The charts of the harness's manifest (none without the charts key).
LintedCharts == IF l_manifest.hasCharts THEN l_manifest.charts ELSE <<>>

\* Number of flags with the given code.
CountCode(flags, code) == Cardinality({i \in 1..Len(flags) : flags[i].code = code})

\* The n_rows_plotted a chart declares, a missing one counting as 0.
DeclaredRows(chart) == IF chart.hasRows THEN chart.n_rows_plotted ELSE 0

\* C14: the linter emits exactly one EMPTY_PLOT warning per chart whose
\* declared n_rows_plotted is below 50 (missing counts as 0) and none for
\* any other chart: 10 and 49 emit it, 50 does not.
C14_EmptyPlotBoundary ==
    LintDone =>
        /\ CountCode(l_flags, "EMPTY_PLOT") =
              Cardinality({i \in 1..Len(LintedCharts) : DeclaredRows(LintedCharts[i]) < 50})
        /\ \A i \in 1..Len(l_flags) :
              l_flags[i].code = "EMPTY_PLOT" => l_flags[i].level = "warn"

\* Two charts on either side of the threshold: 49 rows flagged, 50 not.
C14_Witness ==
    /\ LintDone
    /\ Len(LintedCharts) = 2
    /\ LintedCharts[1].hasRows /\ LintedCharts[1].n_rows_plotted = 49
    /\ LintedCharts[2].hasRows /\ LintedCharts[2].n_rows_plotted = 50
    /\ CountCode(l_flags, "EMPTY_PLOT") = 1

\* What each notes text says: the percentage of its first well-formed
\* "NA dropped: N%" marker, in hundredths of a percent; -1 when it has none.
NotePercent(notes) ==
    CASE notes = <<NaMarker, SP, "20", ".", "0", "%">> -> 2000
      [] notes = <<NaMarker, SP, "20", "%">> -> 2000
      [] notes = <<NaMarker, SP, "20", ".", "05", "%">> -> 2005
      [] notes = <<NaMarker, SP, "19", ".", "5", "%">> -> 1950
      [] notes = <<NaMarker, SP, "21", "%">> -> 2100
      [] notes = <<NaMarker, SP, "5", ".", "30", "%">> -> 530
      [] notes = <<"hist", ";", SP, NaMarker, SP, "25", ".", "0", "%", SP, "of", SP,
                   "rows">> -> 2500
      [] notes = <<NaMarker, SP, "abc", "%", ";", SP, NaMarker, SP, "30", "%">> -> 3000
      [] OTHER -> -1

\* C15: the linter emits HIGH_NA_DROP for a chart exactly when its notes
\* hold a parsable "NA dropped: N%" marker with N > 20; exactly 20.0 does
\* not trigger it, nor do notes without the marker or with an unparsable
\* number.
C15_NaDropBoundary ==
    LintDone =>
        CountCode(l_flags, "HIGH_NA_DROP") =
            Cardinality({i \in 1..Len(LintedCharts) :
                           NotePercent(LintedCharts[i].notes) > 2000})

\* Notes of exactly 20.0% beside notes of 20.05%: one flag.
C15_Witness ==
    /\ LintDone
    /\ Len(LintedCharts) = 2
    /\ LintedCharts[1].notes = <<NaMarker, SP, "20", ".", "0", "%">>
    /\ LintedCharts[2].notes = <<NaMarker, SP, "20", ".", "05", "%">>
    /\ CountCode(l_flags, "HIGH_NA_DROP") = 1

\* The columns the evidence has an entry for.
EvidencedColumns(evidence) ==
    {e.col : e \in evidence.numeric} \cup {e.col : e \in evidence.categorical}

\* The chart lists a column the evidence has no entry for.
NamesUnknownColumn(chart, evidence) ==
    chart.hasCols /\ \E c \in Range(chart.columns_used) : c \notin EvidencedColumns(evidence)

ColumnRuleCodes == {"HIGH_CARDINALITY", "HIGH_SKEW_NO_LOG"}

\* No flag of a column rule is about a column without evidence.
NoFlagForUnknownColumn ==
    \A i \in 1..Len(l_flags) :
        l_flags[i].code \in ColumnRuleCodes => l_flags[i].msg \in EvidencedColumns(l_evidence)

\* C16 as stated: unknown columns are skipped, and a chart that lists one
\* gets no flag at all.
C16_NoFlagForChartWithUnknownColumn ==
    LintDone =>
        /\ NoFlagForUnknownColumn
        /\ (/\ LintedCharts # <<>>
            /\ \A i \in 1..Len(LintedCharts) :
                  NamesUnknownColumn(LintedCharts[i], l_evidence)) =>
              l_flags = <<>>

\* The chart with the columns that have no evidence taken off its list.
KnownOnly(chart, evidence) ==
    [chart EXCEPT !.columns_used =
        SelectSeq(@, LAMBDA c : c \in EvidencedColumns(evidence))]

RECURSIVE KnownOnlyCharts(_, _)
KnownOnlyCharts(charts, evidence) ==
    IF charts = <<>> THEN <<>>
    ELSE <<KnownOnly(charts[1], evidence)>> \o KnownOnlyCharts(Tail(charts), evidence)

\* C16 amended: unknown columns are skipped silently: no column flag is
\* about one, and the flags are those of the same manifest with the unknown
\* names taken off; the other rules still apply to the chart.
C16_UnknownColumnsSkipped ==
    LintDone =>
        /\ NoFlagForUnknownColumn
        /\ l_flags = run_linter([l_manifest EXCEPT !.charts =
                                    KnownOnlyCharts(@, l_evidence)], l_evidence)
        /\ \A code \in {"HIGH_NA_DROP", "EMPTY_PLOT", "MANY_TICKS", "MISSING_LABELS"} :
              CountCode(l_flags, code) =
                  CountCode(run_linter([l_manifest EXCEPT !.charts =
                                           KnownOnlyCharts(@, EmptyEvidence)], EmptyEvidence), code)

\* A chart that lists an unknown column beside a skewed one and declares
\* 49 rows: flagged for the known column and for the rows.
C16_Witness ==
    /\ LintDone
    /\ l_df = DfSkewed
    /\ Len(LintedCharts) = 1
    /\ LintedCharts[1].columns_used = <<"ghost", "price">>
    /\ LintedCharts[1].n_rows_plotted = 49
    /\ Len(l_flags) = 2
    /\ l_flags[1] = Flag("warn", "HIGH_SKEW_NO_LOG", "price")
    /\ l_flags[2].code = "EMPTY_PLOT"

\* _generate_evidence has returned.
EvidenceDone == l_pc \in {"evidence", "done"}

\* The manifest has no charts, or every chart has an empty or absent
\* columns_used.
NoColumnsNamed(manifest) ==
    \/ ~manifest.hasCharts
    \/ \A i \in 1..Len(manifest.charts) :
          ~manifest.charts[i].hasCols \/ manifest.charts[i].columns_used = <<>>

\* The columns some chart of the manifest names.
ColumnsNamed(manifest) ==
    IF ~manifest.hasCharts THEN {}
    ELSE {c \in {"price", "city", "ghost", "blank"} :
            \E i \in 1..Len(manifest.charts) :
                /\ manifest.charts[i].hasCols
                /\ c \in Range(manifest.charts[i].columns_used)}

\* C17: with no charts, or only charts without used columns, the evidence
\* has an entry for every numeric and every categorical column of the
\* dataset, columns whose values are all missing included; when some chart
\* names columns, only named columns have entries.
C17_EvidenceForEveryColumn ==
    EvidenceDone =>
        IF NoColumnsNamed(l_manifest)
        THEN /\ {e.col : e \in l_evidence.numeric} =
                  {l_df[i].name : i \in {j \in 1..Len(l_df) : l_df[j].dtype = "num"}}
             /\ {e.col : e \in l_evidence.categorical} =
                  {l_df[i].name : i \in {j \in 1..Len(l_df) : l_df[j].dtype = "cat"}}
        ELSE EvidencedColumns(l_evidence) \subseteq ColumnsNamed(l_manifest)

\* corr_pearson_top of the harness's evidence.
TopPairs == l_evidence.relationships.corr_pearson_top

\* The pairs of numeric columns of the dataset whose correlation is a
\* number, as [first, second, correlation] in column order.
NumberPairs(df) ==
    {<<df[i].name, df[j].name, df[i].load * df[j].load>> :
        <<i, j>> \in {p \in (1..Len(df)) \X (1..Len(df)) :
                        /\ p[1] < p[2]
                        /\ df[p[1]].dtype = "num" /\ df[p[2]].dtype = "num"
                        /\ ~df[p[1]].empty /\ ~df[p[2]].empty
                        /\ df[p[1]].load # 0 /\ df[p[2]].load # 0}}

\* C18: corr_pearson_top, when present, has at most 10 entries in order of
\* non-increasing absolute correlation, no NaN entry, each unordered pair of
\* distinct numeric columns at most once, and is the top of all numeric
\* columns of the dataset whatever columns the manifest uses.
C18_TopCorrelations ==
    EvidenceDone =>
        /\ l_evidence.relationships.has =
              (Cardinality({i \in 1..Len(l_df) : l_df[i].dtype = "num"}) > 1)
        /\ Len(TopPairs) <= 10
        /\ \A i \in 1..Len(TopPairs) - 1 : Abs(TopPairs[i][3]) >= Abs(TopPairs[i + 1][3])
        /\ \A i \in 1..Len(TopPairs) : TopPairs[i] \in NumberPairs(l_df)
        /\ \A i, j \in 1..Len(TopPairs) :
              i # j => {TopPairs[i][1], TopPairs[i][2]} # {TopPairs[j][1], TopPairs[j][2]}
        /\ \A i \in 1..Len(TopPairs) : TopPairs[i][1] # TopPairs[i][2]
        /\ \A p \in NumberPairs(l_df) :
              \/ p \in Range(TopPairs)
              \/ /\ Len(TopPairs) = 10
                 /\ Abs(p[3]) <= Abs(TopPairs[10][3])

\* A dataset of twenty-one correlated pairs, cut to ten, for a manifest
\* whose only used column is not in the dataset.
C18_Witness ==
    /\ EvidenceDone
    /\ l_df = DfWide
    /\ Len(LintedCharts) = 1
    /\ LintedCharts[1].columns_used = <<"ghost">>
    /\ Len(TopPairs) = 10
    /\ TopPairs[1] = <<"qty", "rank", -90>>
    /\ TopPairs[2] = <<"tax", "rank", 90>>
    /\ Cardinality(NumberPairs(l_df)) = 21

(***************************************************************************)
(* Claims about the agent boundaries (SpecAgents).                         *)
(***************************************************************************)
\* C11: at each of the four agent boundaries, when the llm client is
\* unavailable or its call raises, the method does not raise and returns
\* the rule-based fallback result of the documented shape.
C11_FallbackWhenUnavailable ==
    (a_pc = "done" /\ a_llm \in {"none", "raises"}) =>
        /\ a_out.raised = ""
        /\ a_out.source = "fallback"
        /\ a_out.keys = ResultShape(a_method)

(***************************************************************************)
(* Claims about the handler of run_eda (Spec).                             *)
(***************************************************************************)
\* C12: run_eda never raises to its caller: every fault after entry is
\* captured and the run returns success = false; a fault of the executed
\* analysis code never ends the run.
C12_RunEdaNeverRaises ==
    front = "cli" => run_result # "raised"

(***************************************************************************)
(* Claims about the execution namespace (SpecExec).                        *)
(***************************************************************************)
\* C21: the code execute runs can reach by name only the namespace's
\* entries: it obtains none of the builtins open, __import__, exec, eval,
\* compile, input, and it imports no module.
C21_NamespaceRestricted ==
    (x_pc = "done" /\ x_out.engine) =>
        /\ x_out.names \cap UnsafeBuiltins = {}
        /\ x_out.imported = {}

(***************************************************************************)
(* Claims about the records of a run (Spec).                               *)
(***************************************************************************)
\* The calls of kind op that returned, among the events of the current item.
Calls(op) ==
    Len(SelectSeq(events, LAMBDA e : e.op = op /\ e.info # "raised"))

\* The entries of execution_log["exec_results"] for the current item.
Logged == SelectSeq(exec_results, LAMBDA e : e.item = item)

\* The item's summary has been appended to the log.
ItemLogged ==
    /\ front = "cli"
    /\ Len(events) > 0
    /\ events[Len(events)].op = "save_execution_result"

\* C22: once an item's summary is logged, execution_log["exec_results"]
\* holds every artifact obtained for the item: as many code artifacts as
\* write_code calls, as many execution results as execute calls that
\* returned (the fix-patch re-execution included), as many critiques as
\* critique calls.
C22_LogCapturesEveryArtifact ==
    ItemLogged =>
        /\ Len(Logged) = Calls("write_code")
        /\ Len(Logged) = Calls("execute")
        /\ Len(Logged) = Calls("critique")

(***************************************************************************)
(* Claims about malformed manifests (SpecExec).                            *)
(***************************************************************************)
\* C23: whenever gate-approved code runs to completion without raising,
\* execute returns exec_ok = true, whatever the code bound to the name
\* manifest; an EXECUTION_ERROR result is returned only when the code
\* itself raised.
C23_MalformedManifestAccepted ==
    (x_pc = "done" /\ is_code_safe(CodeText(x_code))) =>
        /\ RunCode(x_code).fault = "" => (x_out.returned /\ x_out.res.exec_ok)
        /\ (x_out.returned /\ OneErrorFlag(x_out.res.linter_flags, "EXECUTION_ERROR"))
              => RunCode(x_code).fault # ""

(***************************************************************************)
(* Claims about the order of the linter's flags (SpecLint).                *)
(***************************************************************************)
\* The position of a rule in the documented rule order.
RuleRank(code) ==
    CASE code = "MISSING_LABELS" -> 1
      [] code = "HIGH_CARDINALITY" -> 2
      [] code = "HIGH_SKEW_NO_LOG" -> 3
      [] code = "MANY_TICKS" -> 4
      [] code = "HIGH_NA_DROP" -> 5
      [] code = "EMPTY_PLOT" -> 6
      [] OTHER -> 0

\* The flags the linter returns for chart i of the manifest linted alone.
FlagsOfChart(i) ==
    run_linter([l_manifest EXCEPT !.charts = <<l_manifest.charts[i]>>], l_evidence)

\* The flags of charts i, i + 1, ... linted alone, one chart after the other.
RECURSIVE FlagsFromChart(_)
FlagsFromChart(i) ==
    IF i > Len(LintedCharts) THEN <<>>
    ELSE FlagsOfChart(i) \o FlagsFromChart(i + 1)

\* The codes follow the rule order, and the rules that do not loop over
\* columns appear at most once.
InRuleOrder(flags) ==
    /\ \A j, k \in 1..Len(flags) :
          j < k => RuleRank(flags[j].code) <= RuleRank(flags[k].code)
    /\ \A j \in 1..Len(flags) : RuleRank(flags[j].code) > 0
    /\ \A code \in {"MISSING_LABELS", "MANY_TICKS", "HIGH_NA_DROP", "EMPTY_PLOT"} :
          CountCode(flags, code) <= 1

\* C24: the flags _run_linter returns are the flags of chart 1, then those
\* of chart 2, and so on, each chart's flags being what the rules give for
\* that chart alone, in the rule order MISSING_LABELS, HIGH_CARDINALITY,
\* HIGH_SKEW_NO_LOG, MANY_TICKS, HIGH_NA_DROP, EMPTY_PLOT.
C24_FlagOrder ==
    LintDone =>
        /\ l_flags = FlagsFromChart(1)
        /\ \A i \in 1..Len(LintedCharts) : InRuleOrder(FlagsOfChart(i))

\* Two charts were linted, the first ends with a later rule than the second
\* starts with, and the two charts' flags differ.
C24_Witness ==
    /\ LintDone
    /\ Len(LintedCharts) = 2
    /\ Len(FlagsOfChart(1)) >= 2
    /\ Len(FlagsOfChart(2)) >= 2
    /\ FlagsOfChart(1) # FlagsOfChart(2)
    /\ RuleRank(l_flags[Len(FlagsOfChart(1))].code)
          > RuleRank(l_flags[Len(FlagsOfChart(1)) + 1].code)

(***************************************************************************)
(* Claims about charts of the documented shape (SpecLint).                 *)
(***************************************************************************)
\* A chart with exactly the keys of the documented chart shape (which has
\* no key title) and a non-empty axis.x.
DocumentedShape(chart) ==
    /\ chart.title = "absent"
    /\ chart.hasCols
    /\ chart.hasRows
    /\ chart.axis_x \notin {"absent", ""}

\* C25: a chart of the documented shape with a non-empty x-axis label, such
\* as the chart the fallback coder's code declares, gets no MISSING_LABELS
\* flag from the linter.
C25_DocumentedChartNotFlagged ==
    (LintDone /\ Len(LintedCharts) = 1 /\ DocumentedShape(LintedCharts[1])) =>
        CountCode(l_flags, "MISSING_LABELS") = 0

(***************************************************************************)
(* Claims about the fallback critique (SpecAgents).                        *)
(***************************************************************************)
\* The critic was called without a working llm client and has returned.
FallbackCritiqued ==
    /\ a_pc \in {"done", "applied"}
    /\ a_method = "critique"
    /\ a_llm \in {"none", "raises"}

\* The execution result given to the critic calls for a fix.
NeedsFix(result) ==
    \/ ~result.exec_ok
    \/ \E i \in 1..Len(result.linter_flags) :
          \/ result.linter_flags[i].level = "error"
          \/ result.linter_flags[i].code
                \in {"HIGH_SKEW_NO_LOG", "MISSING_LABELS", "EMPTY_PLOT"}

\* The patch is not empty and every line of it is a comment.
OnlyComments(patch) ==
    /\ patch # <<>>
    /\ \A i \in 1..Len(patch) : StmtText(patch[i])[1] = "#"

\* The status and patch of the fallback critique.
FallbackStatus ==
    FallbackCritiqued =>
        /\ a_out.value.status = (IF NeedsFix(a_input.exec_result) THEN "fix" ELSE "ok")
        /\ a_out.value.status = "ok" => a_out.value.fix_patch = <<>>
        /\ a_out.value.status = "fix" => OnlyComments(a_out.value.fix_patch)

\* The last line of the code ends with a backslash.
EndsContinued(code) ==
    code # <<>> /\ StmtText(code[Len(code)])[Len(StmtText(code[Len(code)]))] = "\\"

C27_StreamsRestored ==
    /\ s_sys = s_init
    /\ \A w \in s_writes :
          IF w.by = 0 THEN w.target = s_init.stdout
          ELSE w.target.owner = "capture" /\ w.target.call = w.by

\* A call let a fault leave execute, a later call ran code that printed,
\* and the caller printed as well.
C27_Witness ==
    /\ Len(s_calls) = 2
    /\ s_calls[1] = "raised"
    /\ \E w \in s_writes : w.by = 2
    /\ \E w \in s_writes : w.by = 0

(***************************************************************************)
(* Claims about the rows saved to the history database (Spec).             *)
(***************************************************************************)
\* The rows of table execution_results saved for item k.
RowsOf(k) == SelectSeq(db_rows, LAMBDA r : r.item_id = k)

\* C28: every processed plan item has exactly one execution_results row,
\* whose retry_count is a number of retries (never the value of a counter
\* that was not initialised), and saving the row does not make the run
\* fail.
C28_OneRowPerItem ==
    /\ \A k \in 1..MaxItems :
          (k < item \/ (k = item /\ ItemLogged)) =>
              /\ Len(RowsOf(k)) = 1
              /\ RowsOf(k)[1].retry_count \in 0..max_retries
    /\ ItemLogged => run_result # "failed"

(***************************************************************************)
(* Claims about the history database (SpecHistory).                        *)
(***************************************************************************)
\* get_session_history has just returned h_history.
HistoryRead == h_last.op = "get_session_history"

\* Rows of a table that belong to session id.
RowsOfSession(table, id) == SelectSeq(table, LAMBDA r : r.session_id = id)

\* C29: for every session get_session_history returns, plan_versions is
\* the number of the session's plan-version rows, executions the number of
\* its execution-result rows, successful_executions the number of those
\* with success true, so that 0 <= successful_executions <= executions.
C29_HistoryCounts ==
    HistoryRead =>
        \A j \in 1..Len(h_history) :
            LET row == h_history[j]
                res == RowsOfSession(h_results, row.session_id)
            IN /\ row.plan_versions = Len(RowsOfSession(h_plans, row.session_id))
               /\ row.executions = Len(res)
               /\ row.successful_executions
                     = Len(SelectSeq(res, LAMBDA r : r.success = "1"))
               /\ row.successful_executions <= row.executions

\* The ids start_session has returned are pairwise distinct.
ReturnedDistinct ==
    \A i, j \in 1..Len(h_returned) : h_returned[i] = h_returned[j] => i = j

\* A start_session step adds one session with a fresh id and success
\* unset, and keeps the sessions there were.
StartStep ==
    h_last'.op = "start_session" /\ Len(h_sessions') > Len(h_sessions) =>
        /\ \A i \in 1..Len(h_returned) : h_returned[i] # h_last'.session_id
        /\ h_returned' = Append(h_returned, h_last'.session_id)
        /\ Len(h_sessions') = Len(h_sessions) + 1
        /\ h_sessions'[Len(h_sessions')] = SessionRow(h_last'.session_id, NULL, NULL)
        /\ SubSeq(h_sessions', 1, Len(h_sessions)) = h_sessions

\* A complete_session(id, success, ...) step sets the columns of the
\* session with that id and changes no other row of any table.
CompleteStep ==
    h_last'.op = "complete_session" =>
        /\ Len(h_sessions') = Len(h_sessions)
        /\ \A i \in 1..Len(h_sessions) :
              IF h_sessions[i].session_id = h_last'.session_id
              THEN /\ h_sessions'[i].session_id = h_sessions[i].session_id
                   /\ h_sessions'[i].success = h_last'.success
                   /\ h_sessions'[i].details # NULL
              ELSE h_sessions'[i] = h_sessions[i]
        /\ h_plans' = h_plans
        /\ h_results' = h_results

\* No other call touches table sessions, so a session's success is the
\* value passed to its last complete_session.
OtherStep ==
    h_last'.op \notin {"start_session", "complete_session"} =>
        h_sessions' = h_sessions

\* The rows of h_history that report session id.
ReportsOf(id) == {j \in 1..Len(h_history) : h_history[j].session_id = id}

\* Session i is reported once, with its success.
ReportedOnce(i) ==
    /\ Cardinality(ReportsOf(h_sessions[i].session_id)) = 1
    /\ \A j \in ReportsOf(h_sessions[i].session_id) :
          h_history[j].success = h_sessions[i].success

\* C30 as stated: start_session returns a fresh id and creates a session
\* with success unset; complete_session changes exactly the session with
\* the id passed; get_session_history reports each session once with the
\* success value passed to its last complete_session.
C30_Lifecycle ==
    /\ [](ReturnedDistinct /\
          (HistoryRead => \A i \in 1..Len(h_sessions) : ReportedOnce(i)))
    /\ [][StartStep /\ CompleteStep /\ OtherStep]_vars

\* C30 amended: as C30_Lifecycle, with get_session_history(limit) reporting
\* once each of the limit most recently started sessions and no other.
C30_LifecycleWithinLimit ==
    /\ [](ReturnedDistinct /\
          (HistoryRead =>
              /\ \A i \in 1..Len(h_sessions) :
                    IF i > Len(h_sessions) - h_last.session_id
                    THEN ReportedOnce(i)
                    ELSE ReportsOf(h_sessions[i].session_id) = {}
              /\ \A j \in 1..Len(h_history) :
                    \E i \in 1..Len(h_sessions) :
                        h_history[j].session_id = h_sessions[i].session_id))
    /\ [][StartStep /\ CompleteStep /\ OtherStep]_vars

\* Two sessions, the first completed as failed and the second as
\* succeeded, both reported by get_session_history.
C30_Witness ==
    /\ HistoryRead
    /\ Len(h_sessions) = 2
    /\ h_sessions[1].success = "0"
    /\ h_sessions[2].success = "1"
    /\ Len(h_history) = 2
====
